---------------------------- MODULE Spec2Model ----------------------------
(***************************************************************************)
(* The spreadsheet-to-program importer of iron-log                         *)
(* (netlify/functions/excel-import.ts): the row scan of parseMinMaxProgram *)
(* that builds the ParsedProgram tree, and the handler's sequence of       *)
(* database statements (identity resolution, then program, blocks, weeks,  *)
(* workouts, template exercises, substitutions) run by concurrent          *)
(* requests against the tables db.ts declares.                             *)
(*                                                                         *)
(* A JavaScript string is a sequence of one-character strings, so that     *)
(* toLowerCase, trim, includes, startsWith and the \d+ match are computed  *)
(* on the characters as the code computes them.                            *)
(***************************************************************************)
EXTENDS Integers, Sequences, FiniteSets, TLC

\* ------------------------------------------------------------------------
\* JavaScript strings
\* ------------------------------------------------------------------------

UpperChars == <<"A", "B", "C", "D", "E", "F", "G", "H", "I", "J", "K", "L", "M", "N", "O", "P", "Q", "R", "S", "T", "U", "V", "W", "X", "Y", "Z">>

LowerChars == <<"a", "b", "c", "d", "e", "f", "g", "h", "i", "j", "k", "l", "m", "n", "o", "p", "q", "r", "s", "t", "u", "v", "w", "x", "y", "z">>

DigitChars == <<"0", "1", "2", "3", "4", "5", "6", "7", "8", "9">>

\* The characters String.prototype.trim removes (those the model's cells use).
WhiteSpace == {" "}

IndexIn(seq, c) ==
  IF \E k \in 1..Len(seq) : seq[k] = c
    THEN CHOOSE k \in 1..Len(seq) : seq[k] = c
    ELSE 0

LowerChar(c) ==
  IF IndexIn(UpperChars, c) > 0 THEN LowerChars[IndexIn(UpperChars, c)] ELSE c

\* String.prototype.toLowerCase
ToLowerCase(s) == [k \in 1..Len(s) |-> LowerChar(s[k])]

\* String.prototype.includes
Includes(s, sub) ==
  \E k \in 0..(Len(s) - Len(sub)) : SubSeq(s, k + 1, k + Len(sub)) = sub

\* String.prototype.startsWith
StartsWith(s, p) == Len(p) <= Len(s) /\ SubSeq(s, 1, Len(p)) = p

\* String.prototype.trim
Trim(s) ==
  LET keep == {k \in 1..Len(s) : s[k] \notin WhiteSpace}
  IN IF keep = {} THEN <<>>
     ELSE SubSeq(s, CHOOSE a \in keep : \A b \in keep : a <= b,
                    CHOOSE a \in keep : \A b \in keep : a >= b)

IsDigit(c) == IndexIn(DigitChars, c) > 0

DigitValue(c) == IndexIn(DigitChars, c) - 1

RECURSIVE DigitsToInt(_)
\* parseInt of a string of decimal digits
DigitsToInt(ds) ==
  IF Len(ds) = 0 THEN 0
  ELSE 10 * DigitsToInt(SubSeq(ds, 1, Len(ds) - 1)) + DigitValue(ds[Len(ds)])

\* str.match(/\d+/)?.[0]: the leftmost maximal run of digits, <<>> when there
\* is none (the code then falls back with ||, an empty string being falsy).
FirstDigits(s) ==
  LET starts == {k \in 1..Len(s) : IsDigit(s[k])}
  IN IF starts = {} THEN <<>>
     ELSE LET a == CHOOSE k \in starts : \A j \in starts : k <= j
              e == CHOOSE k \in a..Len(s) :
                     /\ \A j \in a..k : IsDigit(s[j])
                     /\ (k = Len(s) \/ ~IsDigit(s[k + 1]))
          IN SubSeq(s, a, e)

RECURSIVE NatToString(_)
\* String(n) for a non-negative integer n
NatToString(n) ==
  IF n < 10 THEN <<DigitChars[n + 1]>>
  ELSE NatToString(n \div 10) \o <<DigitChars[(n % 10) + 1]>>

\* ------------------------------------------------------------------------
\* Spreadsheet cells and rows: sheet_to_json(sheet, {header: 1}) yields rows
\* that are arrays of string | number with holes (undefined)
\* ------------------------------------------------------------------------

Undefined == [t |-> "undefined", s |-> <<>>, n |-> 0]

StrCell(s) == [t |-> "string", s |-> s, n |-> 0]

NumCell(n) == [t |-> "number", s |-> <<>>, n |-> n]

\* A hole of the array of rows: data[i] is undefined
Hole == <<[t |-> "hole", s |-> <<>>, n |-> 0]>>

IsHole(row) == Len(row) = 1 /\ row[1].t = "hole"

\* row[k] with k the JavaScript (0-based) index; past the end it is undefined
Cell(row, k) == IF k + 1 <= Len(row) THEN row[k + 1] ELSE Undefined

\* JavaScript truthiness of a cell value
Truthy(c) ==
  \/ c.t = "string" /\ c.s # <<>>
  \/ c.t = "number" /\ c.n # 0

\* String(v) for a cell value that is a string or a non-negative integer
JsString(c) == IF c.t = "string" THEN c.s ELSE NatToString(c.n)

\* String(v || '')
StringOrEmpty(c) == IF Truthy(c) THEN JsString(c) ELSE <<>>

\* ------------------------------------------------------------------------
\* Field extractors (excel-import.ts 45-149)
\* ------------------------------------------------------------------------

\* The en dash of the character class [-–], one character
EnDash == "\\u2013"

DashChars == {"-", EnDash}

\* keyword -> category, in the order Object.entries walks the table
CATEGORY_MAPPINGS ==
  << <<<<"s", "q", "u", "a", "t">>, "Quads">>, <<<<"l", "e", "g", " ", "p", "r", "e", "s", "s">>, "Quads">>,
     <<<<"l", "e", "g", " ", "e", "x", "t", "e", "n", "s", "i", "o", "n">>, "Quads">>, <<<<"l", "u", "n", "g", "e">>, "Quads">>,
     <<<<"l", "e", "g", " ", "c", "u", "r", "l">>, "Hamstrings">>, <<<<"r", "d", "l">>, "Hamstrings">>,
     <<<<"d", "e", "a", "d", "l", "i", "f", "t">>, "Hamstrings">>, <<<<"h", "i", "p", " ", "t", "h", "r", "u", "s", "t">>, "Glutes">>,
     <<<<"g", "l", "u", "t", "e">>, "Glutes">>, <<<<"c", "a", "l", "f">>, "Calves">>,
     <<<<"b", "e", "n", "c", "h">>, "Chest">>, <<<<"c", "h", "e", "s", "t", " ", "p", "r", "e", "s", "s">>, "Chest">>,
     <<<<"i", "n", "c", "l", "i", "n", "e">>, "Chest">>, <<<<"f", "l", "y">>, "Chest">>,
     <<<<"p", "e", "c", " ", "d", "e", "c", "k">>, "Chest">>, <<<<"l", "a", "t", " ", "p", "u", "l", "l", "d", "o", "w", "n">>, "Back">>,
     <<<<"p", "u", "l", "l", "-", "u", "p">>, "Back">>, <<<<"r", "o", "w">>, "Back">>,
     <<<<"p", "u", "l", "l", "o", "v", "e", "r">>, "Back">>, <<<<"s", "h", "r", "u", "g">>, "Back">>,
     <<<<"l", "a", "t", "e", "r", "a", "l", " ", "r", "a", "i", "s", "e">>, "Shoulders">>, <<<<"s", "h", "o", "u", "l", "d", "e", "r", " ", "p", "r", "e", "s", "s">>, "Shoulders">>,
     <<<<"r", "e", "a", "r", " ", "d", "e", "l", "t">>, "Shoulders">>, <<<<"y", "-", "r", "a", "i", "s", "e">>, "Shoulders">>,
     <<<<"c", "u", "r", "l">>, "Biceps">>, <<<<"t", "r", "i", "c", "e", "p", "s">>, "Triceps">>,
     <<<<"t", "r", "i", "c", "e", "p">>, "Triceps">>, <<<<"k", "i", "c", "k", "b", "a", "c", "k">>, "Triceps">>,
     <<<<"c", "r", "u", "n", "c", "h">>, "Abs">>, <<<<"a", "b", " ">>, "Abs">>,
     <<<<"w", "r", "i", "s", "t">>, "Forearms">>, <<<<"d", "e", "a", "d", " ", "h", "a", "n", "g">>, "Grip">> >>

\* The null of a nullable text field
Null == "null"

categorizeExercise(name) ==
  LET lowerName == ToLowerCase(name)
      hits == {k \in 1..Len(CATEGORY_MAPPINGS) :
                 Includes(lowerName, CATEGORY_MAPPINGS[k][1])}
  IN IF hits = {} THEN Null
     ELSE CATEGORY_MAPPINGS[CHOOSE k \in hits : \A j \in hits : k <= j][2]

\* serial number -> rep range
EXCEL_DATE_TO_REP_RANGE ==
  << <<45816, <<6, 8>> >>, <<45879, <<10, 12>> >>, <<45847, <<8, 10>> >>,
     <<45785, <<4, 6>> >>, <<45910, <<12, 15>> >> >>

\* The last position of the run of digits that starts at position k
RunEnd(s, k) ==
  CHOOSE e \in k..Len(s) :
    /\ \A j \in k..e : IsDigit(s[j])
    /\ (e = Len(s) \/ ~IsDigit(s[e + 1]))

\* The first position from k on that holds no white space (Len(s) + 1 if none)
SkipWs(s, k) ==
  CHOOSE p \in k..(Len(s) + 1) :
    /\ \A j \in k..(p - 1) : s[j] \in WhiteSpace
    /\ (p = Len(s) + 1 \/ s[p] \notin WhiteSpace)

\* Whether /(\d+)\s*[-–]\s*(\d+)/ matches with its first group starting at k
RangeAt(s, k) ==
  /\ IsDigit(s[k])
  /\ LET p == SkipWs(s, RunEnd(s, k) + 1)
     IN /\ p <= Len(s)
        /\ s[p] \in DashChars
        /\ LET q == SkipWs(s, p + 1)
           IN q <= Len(s) /\ IsDigit(s[q])

\* str.match(/(\d+)\s*[-–]\s*(\d+)/): the two groups of the leftmost match
RangeMatch(s) ==
  LET at == {k \in 1..Len(s) : RangeAt(s, k)}
  IN IF at = {} THEN [found |-> FALSE, g1 |-> <<>>, g2 |-> <<>>]
     ELSE LET k == CHOOSE a \in at : \A b \in at : a <= b
              q == SkipWs(s, SkipWs(s, RunEnd(s, k) + 1) + 1)
          IN [found |-> TRUE,
              g1 |-> SubSeq(s, k, RunEnd(s, k)),
              g2 |-> SubSeq(s, q, RunEnd(s, q))]

\* Not-a-number, the result of a parseInt that finds no digits
NaN == -1

\* parseInt(str): leading white space, then the longest prefix of digits
ParseInt(s) ==
  LET p == SkipWs(s, 1)
  IN IF p <= Len(s) /\ IsDigit(s[p])
       THEN DigitsToInt(SubSeq(s, p, RunEnd(s, p)))
       ELSE NaN

parseRepRange(value) ==
  IF ~Truthy(value) THEN <<8, 12>>
  ELSE IF value.t = "number"
    THEN IF \E k \in 1..Len(EXCEL_DATE_TO_REP_RANGE) :
              EXCEL_DATE_TO_REP_RANGE[k][1] = value.n
           THEN EXCEL_DATE_TO_REP_RANGE[
                  CHOOSE k \in 1..Len(EXCEL_DATE_TO_REP_RANGE) :
                    EXCEL_DATE_TO_REP_RANGE[k][1] = value.n][2]
           ELSE IF value.n >= 1 /\ value.n <= 30
                  THEN <<value.n, value.n>>
                  ELSE <<8, 12>>
    ELSE LET str == value.s
             rangeMatch == RangeMatch(str)
         IN IF rangeMatch.found
              THEN <<DigitsToInt(rangeMatch.g1), DigitsToInt(rangeMatch.g2)>>
              ELSE IF str # <<>> /\ \A k \in 1..Len(str) : IsDigit(str[k])
                     THEN <<DigitsToInt(str), DigitsToInt(str)>>
                     ELSE <<8, 12>>

parseWarmupSets(value) ==
  IF ~Truthy(value) THEN 0
  ELSE LET str == JsString(value)
           rangeMatch == RangeMatch(str)
           num == ParseInt(str)
       IN IF rangeMatch.found THEN DigitsToInt(rangeMatch.g1)
          ELSE IF num # NaN /\ num >= 0 /\ num <= 5 THEN num
          ELSE 0

\* Whether /(\d+)\s*[-–]?\s*(\d*)\s*min/ matches with its first group at k
RestAt(s, k) ==
  /\ IsDigit(s[k])
  /\ LET p1 == SkipWs(s, RunEnd(s, k) + 1)
         p2 == IF p1 <= Len(s) /\ s[p1] \in DashChars THEN p1 + 1 ELSE p1
         p3 == SkipWs(s, p2)
         p4 == IF p3 <= Len(s) /\ IsDigit(s[p3]) THEN RunEnd(s, p3) + 1 ELSE p3
         p5 == SkipWs(s, p4)
     IN p5 + 2 <= Len(s) /\ SubSeq(s, p5, p5 + 2) = <<"m", "i", "n">>

\* The rest cell's seconds (excel-import.ts 337-342)
parseRestSeconds(cell) ==
  LET restCell == StringOrEmpty(cell)
      at == {k \in 1..Len(restCell) : RestAt(restCell, k)}
  IN IF at = {} THEN 120
     ELSE LET k == CHOOSE a \in at : \A b \in at : a <= b
          IN DigitsToInt(SubSeq(restCell, k, RunEnd(restCell, k))) * 60

\* The working-sets cell (excel-import.ts 323-329)
parseWorkingSets(cell) ==
  IF Truthy(cell)
    THEN LET setsVal == ParseInt(JsString(cell))
         IN IF setsVal # NaN /\ setsVal > 0 /\ setsVal < 10 THEN setsVal ELSE 2
    ELSE 2

\* The RIR cell (excel-import.ts 331-335): <<rir>>, or <<>> for null
parseRir(rirCol) ==
  IF rirCol.t = "number" /\ rirCol.n >= 0 /\ rirCol.n <= 4
    THEN <<rirCol.n>> ELSE <<>>

\* One substitution cell (excel-import.ts 345-350): <<its trimmed text>> or <<>>
substitutionOf(cell) ==
  IF /\ Truthy(cell)
     /\ Trim(JsString(cell)) # <<>>
     /\ ~Includes(ToLowerCase(JsString(cell)), <<"s", "e", "e", " ", "n", "o", "t", "e", "s">>)
    THEN <<Trim(JsString(cell))>>
    ELSE <<>>

\* The notes cell (excel-import.ts 360): <<its trimmed text>>, or <<>> for null
parseNotes(cell) == IF Truthy(cell) THEN <<Trim(JsString(cell))>> ELSE <<>>

\* The prescription addExerciseToWorkout pushes for a row
addExerciseToWorkout(exerciseName, row) ==
  [name |-> exerciseName,
   warmupSets |-> parseWarmupSets(Cell(row, 4)),
   workingSets |-> parseWorkingSets(Cell(row, 5)),
   repRangeMin |-> parseRepRange(Cell(row, 6))[1],
   repRangeMax |-> parseRepRange(Cell(row, 6))[2],
   rir |-> parseRir(Cell(row, 11)),
   restSeconds |-> parseRestSeconds(Cell(row, 13)),
   notes |-> parseNotes(Cell(row, 16)),
   substitutions |-> substitutionOf(Cell(row, 14)) \o substitutionOf(Cell(row, 15)),
   category |-> categorizeExercise(exerciseName)]

\* ------------------------------------------------------------------------
\* parseMinMaxProgram (excel-import.ts 151-312): the scan's state is the
\* tree built so far and the three cursors.  A cursor is a reference to an
\* object of the tree: here the path of that object (0 or <<>> for null).
\* ------------------------------------------------------------------------

\* The state before the first row (excel-import.ts 152-173)
InitialParse ==
  [blocks |-> <<>>, currentBlock |-> 0, currentWeek |-> <<>>,
   currentWorkout |-> <<>>, exerciseOrder |-> 0, threw |-> FALSE]

\* The workout-name vocabulary (excel-import.ts 274)
workoutNames ==
  {<<"f", "u", "l", "l", " ", "b", "o", "d", "y">>, <<"u", "p", "p", "e", "r">>, <<"l", "o", "w", "e", "r">>, <<"a", "r", "m", "s">>, <<"a", "r", "m", "s", "/", "d", "e", "l", "t", "s">>,
   <<"p", "u", "s", "h">>, <<"p", "u", "l", "l">>, <<"l", "e", "g", "s">>}

\* program.blocks.push(currentBlock = {...}) (excel-import.ts 215-220, 232-233,
\* 278-279); the block header alone also clears the other cursors
PushBlock(st, blockNumber, name) ==
  [st EXCEPT !.blocks = Append(@, [blockNumber |-> blockNumber,
                                     name |-> name, weeks |-> <<>>]),
             !.currentBlock = Len(st.blocks) + 1]

\* currentBlock.weeks.push(currentWeek = {...}) (excel-import.ts 255-261, 281-287)
PushWeek(st, weekNumber, name, weekType) ==
  LET b == st.currentBlock
  IN [st EXCEPT !.blocks[b].weeks =
                   Append(@, [weekNumber |-> weekNumber, name |-> name,
                              weekType |-> weekType, workouts |-> <<>>]),
                !.currentWeek = <<b, Len(st.blocks[b].weeks) + 1>>]

\* NextDayNumber as it would be were the day number the workout's 0-based index
NextDayNumber_ZeroBased(st) ==
  Len(st.blocks[st.currentWeek[1]].weeks[st.currentWeek[2]].workouts)

\* The day number of a new workout of the current week (excel-import.ts 292)
NextDayNumber(st) ==
  Len(st.blocks[st.currentWeek[1]].weeks[st.currentWeek[2]].workouts) + 1

\* currentWeek.workouts.push(currentWorkout = {...}) (excel-import.ts 290-296)
PushWorkout(st, name) ==
  LET b == st.currentWeek[1]
      w == st.currentWeek[2]
  IN [st EXCEPT !.blocks[b].weeks[w].workouts =
                   Append(@, [name |-> name, dayNumber |-> NextDayNumber(st),
                              exercises |-> <<>>]),
                !.currentWorkout =
                   <<b, w, Len(st.blocks[b].weeks[w].workouts) + 1>>,
                !.exerciseOrder = 0]

\* addExerciseToWorkout(currentWorkout, colC, row, exerciseOrder++)
PushExercise(st, exerciseName, row) ==
  LET b == st.currentWorkout[1]
      w == st.currentWorkout[2]
      k == st.currentWorkout[3]
  IN [st EXCEPT !.blocks[b].weeks[w].workouts[k].exercises =
                   Append(@, addExerciseToWorkout(exerciseName, row)),
                !.exerciseOrder = @ + 1]

\* The week type and name a week header takes from the row before it
\* (excel-import.ts 242-253); i is the row's JavaScript index
WeekTypeOf(colB, i, prevRow) ==
  LET prevB == ToLowerCase(StringOrEmpty(Cell(prevRow, 1)))
      hasPrev == i > 0 /\ ~IsHole(prevRow)
  IN IF hasPrev /\ Includes(prevB, <<"i", "n", "t", "r", "o">>)
       THEN [weekType |-> "intro", name |-> colB \o <<" ", "(", "I", "n", "t", "r", "o", ")">>]
     ELSE IF hasPrev /\ Includes(prevB, <<"d", "e", "l", "o", "a", "d">>)
       THEN [weekType |-> "deload", name |-> colB \o <<" ", "(", "D", "e", "l", "o", "a", "d", ")">>]
     ELSE [weekType |-> "normal", name |-> colB]

\* The first integer of a label, else the fallback (excel-import.ts 214, 239)
LabelNumber(colB, fallback) ==
  IF FirstDigits(colB) # <<>> THEN DigitsToInt(FirstDigits(colB)) ELSE fallback

\* BlockRow as it would be were the cursors of the week and the workout kept
BlockRow_KeepsCursors(st, colB) ==
  PushBlock(st, LabelNumber(colB, Len(st.blocks) + 1), colB)

\* A row whose column B holds a block label (excel-import.ts 213-224)
BlockRow(st, colB) ==
  [PushBlock(st, LabelNumber(colB, Len(st.blocks) + 1), colB)
     EXCEPT !.currentWeek = <<>>, !.currentWorkout = <<>>]

\* A row whose column B holds a week label (excel-import.ts 230-266)
WeekRow(st, colB, lowerC, i, prevRow) ==
  LET st1 == IF st.currentBlock = 0 THEN PushBlock(st, 1, <<"B", "l", "o", "c", "k", " ", "1">>) ELSE st
  IN IF lowerC = <<"e", "x", "e", "r", "c", "i", "s", "e">>
       THEN LET weekNum == LabelNumber(colB,
                             Len(st1.blocks[st1.currentBlock].weeks) + 1)
                wt == WeekTypeOf(colB, i, prevRow)
            IN [PushWeek(st1, weekNum, wt.name, wt.weekType)
                  EXCEPT !.currentWorkout = <<>>]
       ELSE st1

\* WorkoutRow as it would be were the exercise of the header row added
\* before the new workout is opened, to the workout open until then
WorkoutRow_ExerciseFirst(st, colB, colC, lowerC, row) ==
  LET st0 == IF /\ colC # <<>> /\ ~Includes(lowerC, <<"e", "x", "e", "r", "c", "i", "s", "e">>)
                /\ st.currentWorkout # <<>>
               THEN PushExercise(st, colC, row)
               ELSE st
      st1 == IF st0.currentWeek = <<>>
               THEN PushWeek(IF st0.currentBlock = 0
                               THEN PushBlock(st0, 1, <<"B", "l", "o", "c", "k", " ", "1">>) ELSE st0,
                             1, <<"W", "e", "e", "k", " ", "1">>, "normal")
               ELSE st0
  IN PushWorkout(st1, colB)

\* A row whose column B starts with a workout name (excel-import.ts 275-303)
WorkoutRow(st, colB, colC, lowerC, row) ==
  LET st1 == IF st.currentWeek = <<>>
               THEN PushWeek(IF st.currentBlock = 0
                               THEN PushBlock(st, 1, <<"B", "l", "o", "c", "k", " ", "1">>) ELSE st,
                             1, <<"W", "e", "e", "k", " ", "1">>, "normal")
               ELSE st
      st2 == PushWorkout(st1, colB)
  IN IF colC # <<>> /\ ~Includes(lowerC, <<"e", "x", "e", "r", "c", "i", "s", "e">>)
       THEN PushExercise(st2, colC, row)
       ELSE st2

\* SkipsRow as it would be were the test only row.length === 0
SkipsRow_LengthOnly(row) == ~IsHole(row) /\ Len(row) = 0

\* if (!row || row.length === 0) continue (excel-import.ts 190)
SkipsRow(row) == IsHole(row) \/ Len(row) = 0

\* A TypeError leaves the loop and the function: no row is processed after it
Raise(st) == [st EXCEPT !.threw = TRUE]

\* One iteration of the loop over the rows (excel-import.ts 188-309): the
\* state after data[i], given the state before it and data[i - 1]; reading
\* a property of undefined raises a TypeError
ParseRow(st, row, i, prevRow) ==
  LET colB == Trim(StringOrEmpty(Cell(row, 1)))
      colC == Trim(StringOrEmpty(Cell(row, 2)))
      lowerB == ToLowerCase(colB)
      lowerC == ToLowerCase(colC)
  IN IF st.threw THEN st
     ELSE IF SkipsRow(row) THEN st
     ELSE IF IsHole(row) THEN Raise(st)
     ELSE IF \/ Includes(lowerB, <<"i", "m", "p", "o", "r", "t", "a", "n", "t", " ", "p", "r", "o", "g", "r", "a", "m", " ", "n", "o", "t", "e", "s">>)
             \/ Includes(lowerB, <<"t", "h", "e", " ", "m", "i", "n", "-", "m", "a", "x", " ", "p", "r", "o", "g", "r", "a", "m">>)
             \/ Includes(lowerB, <<"c", "o", "p", "y", "r", "i", "g", "h", "t">>)
             \/ Includes(lowerB, <<"w", "a", "r", "m", "-", "u", "p", " ", "p", "r", "o", "t", "o", "c", "o", "l">>)
       THEN st
     ELSE IF \/ lowerC = <<"e", "x", "e", "r", "c", "i", "s", "e">>
             \/ Includes(lowerC, <<"t", "r", "a", "c", "k", "i", "n", "g", " ", "l", "o", "a", "d">>)
             \/ lowerC = <<"l", "o", "a", "d">>
       THEN st
     ELSE IF Includes(lowerB, <<"b", "l", "o", "c", "k">>) /\ ~Includes(lowerB, <<"e", "x", "e", "r", "c", "i", "s", "e">>)
       THEN BlockRow(st, colB)
     ELSE IF /\ Includes(lowerB, <<"w", "e", "e", "k">>)
             /\ ~Includes(lowerB, <<"p", "e", "r", " ", "w", "e", "e", "k">>)
             /\ ~Includes(lowerB, <<"p", "r", "o", "g", "r", "a", "m", " ", "n", "o", "t", "e", "s">>)
             /\ Len(colB) < 50
       THEN WeekRow(st, colB, lowerC, i, prevRow)
     ELSE IF Includes(lowerB, <<"r", "e", "s", "t", " ", "d", "a", "y">>)
       THEN st
     ELSE IF \E w \in workoutNames : lowerB = w \/ StartsWith(lowerB, w)
       THEN WorkoutRow(st, colB, colC, lowerC, row)
     ELSE IF /\ colC # <<>>
             /\ colB = <<>>
             /\ st.currentWorkout # <<>>
             /\ ~Includes(lowerC, <<"e", "x", "e", "r", "c", "i", "s", "e">>)
             /\ ~Includes(lowerC, <<"l", "o", "a", "d">>)
       THEN PushExercise(st, colC, row)
     ELSE st

RECURSIVE ParseRows(_, _, _)
\* The state after the first n rows of data
ParseRows(data, n, st0) ==
  IF n = 0 THEN st0
  ELSE ParseRow(ParseRows(data, n - 1, st0), data[n], n - 1,
                IF n > 1 THEN data[n - 1] ELSE <<>>)

\* The blocks of the program parseMinMaxProgram returns for a sheet's rows
parseMinMaxProgram(data) == ParseRows(data, Len(data), InitialParse).blocks

\* ------------------------------------------------------------------------
\* Sheets: the rows the model feeds the scan and the handler
\* ------------------------------------------------------------------------

\* A row of 17 cells (columns A..Q) holding the cells of f, the rest holes
RowOf(f) == [k \in 1..17 |-> IF (k - 1) \in DOMAIN f THEN f[k - 1] ELSE Undefined]

\* A row with a label in column B
LabelRow(b) == RowOf(1 :> StrCell(b))

\* A row with a label in column B and a text in column C
HeaderRow(b, c) == RowOf(1 :> StrCell(b) @@ 2 :> StrCell(c))

\* The substitution cells (columns O, P) of a row
SubCells(subs) ==
  [k \in {14 + j : j \in 0..(Len(subs) - 1)} |-> StrCell(subs[k - 13])]

\* An exercise row: a name in column C, sets, rep range, substitutions
ExerciseRow(c, subs) ==
  RowOf(2 :> StrCell(c) @@ 5 :> NumCell(3) @@ 6 :> StrCell(<<"8", "-", "1", "0">>) @@
        SubCells(subs))

\* A workout header that carries its first exercise in column C
WorkoutRowOf(b, c, subs) ==
  RowOf(1 :> StrCell(b) @@ 2 :> StrCell(c) @@ 5 :> NumCell(3) @@
        6 :> StrCell(<<"8", "-", "1", "0">>) @@ SubCells(subs))

\* A label row that announces an intro week
IntroWeekLabel == LabelRow(<<"I", "n", "t", "r", "o", " ", "W", "e", "e", "k">>)

\* A label row that announces a deload week
DeloadWeekLabel == LabelRow(<<"D", "e", "l", "o", "a", "d", " ", "W", "e", "e", "k">>)

\* A week header: the week's label with the exercise marker beside it
WeekOneHeader == HeaderRow(<<"W", "e", "e", "k", " ", "1">>, <<"E", "x", "e", "r", "c", "i", "s", "e">>)

\* A rest-day marker
RestDayLabel == LabelRow(<<"R", "e", "s", "t", " ", "D", "a", "y">>)

\* A block header whose label sits in column A
ColumnABlock == RowOf(0 :> StrCell(<<"B", "l", "o", "c", "k", " ", "2">>))

\* A row whose cells in columns B and C are numbers
NumberRow == RowOf(1 :> NumCell(7) @@ 2 :> NumCell(5))

\* An exercise row of three cells: the array ends at column C
ShortRow == <<Undefined, Undefined, StrCell(<<"L", "u", "n", "g", "e">>)>>

\* The rows a sheet of the scan's specification is made of
SheetRows ==
  << <<>>,
     LabelRow(<<"B", "l", "o", "c", "k", " ", "1">>),
     LabelRow(<<"B", "l", "o", "c", "k", " ", "3">>),
     IntroWeekLabel,
     WeekOneHeader,
     DeloadWeekLabel,
     RestDayLabel,
     WorkoutRowOf(<<"U", "p", "p", "e", "r">>, <<"B", "e", "n", "c", "h", " ", "P", "r", "e", "s", "s">>, <<>>),
     LabelRow(<<"L", "o", "w", "e", "r", " ", "B", "o", "d", "y">>),
     ExerciseRow(<<"S", "q", "u", "a", "t">>, <<<<"L", "e", "g", " ", "P", "r", "e", "s", "s">>>>),
     LabelRow(<<"C", "o", "p", "y", "r", "i", "g", "h", "t", " ", "2", "0", "2", "4">>),
     Hole,
     ShortRow,
     NumberRow,
     RowOf(2 :> StrCell(<<"T", "r", "a", "c", "k", "i", "n", "g", " ", "L", "o", "a", "d", " ", "(", "k", "g", ")">>)),
     ColumnABlock >>

\* The longest sheet the scan's specification feeds
MaxRows == 4

\* An exercise row that carries the cell v in column col and nothing else
CellRow(col, v) == RowOf(2 :> StrCell(<<"S", "q", "u", "a", "t">>) @@ col :> v)

\* Values of the warm-up cell (column E)
WarmupCells ==
  << StrCell(<<"a", "b", "c">>), StrCell(<<"1", "-", "2">>), StrCell(<<"7", "-", "9">>), StrCell(<<"2">>),
     StrCell(<<"7">>), NumCell(2), NumCell(7) >>

\* Values of the working-sets cell (column F)
WorkingSetCells ==
  << StrCell(<<"a", "b", "c">>), StrCell(<<"3", " ", "s", "e", "t", "s">>), StrCell(<<"9">>), StrCell(<<"1", "0">>),
     StrCell(<<"0">>), NumCell(3), NumCell(12), NumCell(0) >>

\* Values of the rep-range cell (column G)
RepRangeCells ==
  << StrCell(<<>>), StrCell(<<"a", "b", "c">>), StrCell(<<"8", "-", "1", "0">>), StrCell(<<"1", "2", "-", "8">>),
     StrCell(<<"0", "-", "5">>), StrCell(<<"6", " ", EnDash, " ", "8">>), StrCell(<<"1", "0">>),
     NumCell(45816), NumCell(45000), NumCell(12), NumCell(0) >>

\* Values of the RIR cell (column L)
RirCells == << NumCell(2), NumCell(5), StrCell(<<"2">>) >>

\* Values of the RIR cell (column L) with the cell beside it (column M)
RirPairs ==
  << <<NumCell(5), NumCell(2)>>, <<Undefined, NumCell(3)>>, <<NumCell(1), NumCell(3)>>,
     <<StrCell(<<"2">>), NumCell(0)>> >>

\* Values of the rest cell (column N)
RestCells ==
  << StrCell(<<"a", "b", "c">>), StrCell(<<"2", " ", "m", "i", "n">>), StrCell(<<"1", "-", "2", " ", "m", "i", "n">>),
     StrCell(<<"9", "0", " ", "s", "e", "c">>), StrCell(<<"m", "i", "n">>), NumCell(2) >>

\* The rows the extractors' specification feeds: a workout header with no
\* exercise, an exercise row with every cell absent, and exercise rows that
\* carry one cell each
CellRows ==
  << LabelRow(<<"U", "p", "p", "e", "r">>), RowOf(2 :> StrCell(<<"S", "q", "u", "a", "t">>)) >> \o
  [k \in 1..Len(WarmupCells) |-> CellRow(4, WarmupCells[k])] \o
  [k \in 1..Len(WorkingSetCells) |-> CellRow(5, WorkingSetCells[k])] \o
  [k \in 1..Len(RepRangeCells) |-> CellRow(6, RepRangeCells[k])] \o
  [k \in 1..Len(RirCells) |-> CellRow(11, RirCells[k])] \o
  [k \in 1..Len(RestCells) |-> CellRow(13, RestCells[k])] \o
  [k \in 1..Len(RirPairs) |->
     RowOf(2 :> StrCell(<<"S", "q", "u", "a", "t">>) @@ 11 :> RirPairs[k][1] @@ 12 :> RirPairs[k][2])]

\* The longest sheet the extractors' specification feeds
MaxCellRows == 2

\* The sheets the handler's specification uploads
Workbooks ==
  [case |->
     << WorkoutRowOf(<<"U", "p", "p", "e", "r">>, <<"B", "e", "n", "c", "h", " ", "P", "r", "e", "s", "s">>, <<>>),
        ExerciseRow(<<"b", "e", "n", "c", "h", " ", "p", "r", "e", "s", "s">>, <<>>),
        ExerciseRow(<<"B", "E", "N", "C", "H", " ", "P", "R", "E", "S", "S">>, <<>>) >>,
   subs |->
     << WorkoutRowOf(<<"U", "p", "p", "e", "r">>, <<"B", "e", "n", "c", "h", " ", "P", "r", "e", "s", "s">>, <<<<"I", "n", "c", "l", "i", "n", "e", " ", "B", "e", "n", "c", "h">>>>),
        ExerciseRow(<<"B", "e", "n", "c", "h", " ", "P", "r", "e", "s", "s">>, <<<<"I", "n", "c", "l", "i", "n", "e", " ", "B", "e", "n", "c", "h">>, <<"b", "e", "n", "c", "h", " ", "p", "r", "e", "s", "s">>>>) >>,
   grid |->
     << LabelRow(<<"B", "l", "o", "c", "k", " ", "1">>),
        HeaderRow(<<"W", "e", "e", "k", " ", "1">>, <<"E", "x", "e", "r", "c", "i", "s", "e">>),
        WorkoutRowOf(<<"U", "p", "p", "e", "r">>, <<"B", "e", "n", "c", "h", " ", "P", "r", "e", "s", "s">>, <<>>),
        ExerciseRow(<<"R", "o", "w">>, <<>>),
        ExerciseRow(<<"C", "u", "r", "l">>, <<>>),
        WorkoutRowOf(<<"L", "o", "w", "e", "r">>, <<"S", "q", "u", "a", "t">>, <<>>),
        ExerciseRow(<<"L", "u", "n", "g", "e">>, <<>>),
        ExerciseRow(<<"C", "a", "l", "f", " ", "R", "a", "i", "s", "e">>, <<>>),
        HeaderRow(<<"W", "e", "e", "k", " ", "2">>, <<"E", "x", "e", "r", "c", "i", "s", "e">>),
        WorkoutRowOf(<<"U", "p", "p", "e", "r">>, <<"B", "e", "n", "c", "h", " ", "P", "r", "e", "s", "s">>, <<>>),
        ExerciseRow(<<"R", "o", "w">>, <<>>),
        ExerciseRow(<<"C", "u", "r", "l">>, <<>>),
        WorkoutRowOf(<<"L", "o", "w", "e", "r">>, <<"S", "q", "u", "a", "t">>, <<>>),
        ExerciseRow(<<"L", "u", "n", "g", "e">>, <<>>),
        ExerciseRow(<<"C", "a", "l", "f", " ", "R", "a", "i", "s", "e">>, <<>>) >>,
   order |->
     << LabelRow(<<"B", "l", "o", "c", "k", " ", "2">>),
        WorkoutRowOf(<<"U", "p", "p", "e", "r">>, <<"B", "e", "n", "c", "h", " ", "P", "r", "e", "s", "s">>, <<>>),
        LabelRow(<<"B", "l", "o", "c", "k", " ", "1">>),
        WorkoutRowOf(<<"L", "o", "w", "e", "r">>, <<"S", "q", "u", "a", "t">>, <<>>),
        ExerciseRow(<<"B", "E", "N", "C", "H", " ", "P", "R", "E", "S", "S">>, <<>>) >>,
   twice |->
     << LabelRow(<<"B", "l", "o", "c", "k", " ", "1">>),
        WorkoutRowOf(<<"U", "p", "p", "e", "r">>, <<"S", "q", "u", "a", "t">>, <<>>),
        LabelRow(<<"B", "l", "o", "c", "k", " ", "1">>),
        WorkoutRowOf(<<"L", "o", "w", "e", "r">>, <<"L", "u", "n", "g", "e">>, <<>>) >>,
   noise |->
     << LabelRow(<<"C", "o", "p", "y", "r", "i", "g", "h", "t", " ", "2", "0", "2", "4">>),
        <<>>,
        RowOf(2 :> StrCell(<<"T", "r", "a", "c", "k", "i", "n", "g", " ", "L", "o", "a", "d", " ", "(", "k", "g", ")">>)),
        RestDayLabel,
        NumberRow >>,
   empty |-> << >>]

\* ------------------------------------------------------------------------
\* State
\* ------------------------------------------------------------------------

VARIABLES
  \* the scan of one sheet (parseMinMaxProgram, row by row)
  pst,        \* the tree built so far and the cursors
  rowNo,      \* the number of rows processed (the loop's i)
  curRow,     \* the row processed last, as its place in SheetRows (0: none)
  prevRow,    \* the row before it (0: none)
  \* the database (db.ts initDb): each table is its set of rows
  exercises,
  programs,
  program_blocks,
  block_weeks,
  workout_templates,
  template_exercises,
  exercise_substitutions,
  \* the requests being handled: each import's locals
  imp

parseVars == <<pst, rowNo, curRow, prevRow>>

tables == <<exercises, programs, program_blocks, block_weeks,
            workout_templates, template_exercises, exercise_substitutions>>

vars == <<pst, rowNo, curRow, prevRow, exercises, programs, program_blocks,
          block_weeks, workout_templates, template_exercises,
          exercise_substitutions, imp>>

\* The requests that may run at the same time
Imports == {"a", "b"}

\* ------------------------------------------------------------------------
\* The walk of the parsed tree (the four nested for loops, excel-import.ts
\* 461-472, 494-511, 575-586, 608-623, 659-698)
\* ------------------------------------------------------------------------

RECURSIVE Concat(_)
\* The concatenation of a sequence of sequences
Concat(ss) == IF Len(ss) = 0 THEN <<>> ELSE Concat(SubSeq(ss, 1, Len(ss) - 1)) \o ss[Len(ss)]

\* The weeks of the tree in walk order, as paths <<block, week>>
WeekPaths(blocks) ==
  Concat([b \in 1..Len(blocks) |->
            [w \in 1..Len(blocks[b].weeks) |-> <<b, w>>]])

\* The workouts of the tree in walk order, as paths <<block, week, workout>>
WorkoutPaths(blocks) ==
  LET wp == WeekPaths(blocks)
  IN Concat([x \in 1..Len(wp) |->
               [k \in 1..Len(blocks[wp[x][1]].weeks[wp[x][2]].workouts) |->
                  <<wp[x][1], wp[x][2], k>>]])

\* The prescriptions in walk order, as paths <<block, week, workout, exercise>>
ExercisePaths(blocks) ==
  LET kp == WorkoutPaths(blocks)
  IN Concat([x \in 1..Len(kp) |->
               [e \in 1..Len(blocks[kp[x][1]].weeks[kp[x][2]]
                                .workouts[kp[x][3]].exercises) |->
                  <<kp[x][1], kp[x][2], kp[x][3], e>>]])

WeekAt(blocks, p) == blocks[p[1]].weeks[p[2]]

WorkoutAt(blocks, p) == blocks[p[1]].weeks[p[2]].workouts[p[3]]

ExerciseAt(blocks, p) == blocks[p[1]].weeks[p[2]].workouts[p[3]].exercises[p[4]]

RECURSIVE Distinct(_)
\* A sequence without its repetitions, in order of first occurrence (the
\* iteration order of a JavaScript Set or Map filled from it)
Distinct(s) ==
  IF Len(s) = 0 THEN <<>>
  ELSE LET front == Distinct(SubSeq(s, 1, Len(s) - 1))
       IN IF \E k \in 1..Len(front) : front[k] = s[Len(s)]
            THEN front ELSE Append(front, s[Len(s)])

\* ------------------------------------------------------------------------
\* Identity resolution (excel-import.ts 457-533)
\* ------------------------------------------------------------------------

\* allExerciseNames.add(ex.name.toLowerCase()) over the walk
allExerciseNames(blocks) ==
  LET ep == ExercisePaths(blocks)
  IN Distinct([x \in 1..Len(ep) |-> ToLowerCase(ExerciseAt(blocks, ep[x]).name)])

\* allSubstitutionNames.add(sub.toLowerCase()) over the walk
allSubstitutionNames(blocks) ==
  LET ep == ExercisePaths(blocks)
  IN Distinct(Concat([x \in 1..Len(ep) |->
        [j \in 1..Len(ExerciseAt(blocks, ep[x]).substitutions) |->
           ToLowerCase(ExerciseAt(blocks, ep[x]).substitutions[j])]]))

\* allNames as it would be were the names collected as written, not lower-cased
allNames_KeepsCase(blocks) ==
  LET ep == ExercisePaths(blocks)
  IN Distinct([x \in 1..Len(ep) |-> ExerciseAt(blocks, ep[x]).name] \o
              Concat([x \in 1..Len(ep) |-> ExerciseAt(blocks, ep[x]).substitutions]))

\* new Set([...allExerciseNames, ...allSubstitutionNames]), in iteration order
allNames(blocks) == Distinct(allExerciseNames(blocks) \o allSubstitutionNames(blocks))

RECURSIVE OriginalInWorkout(_, _, _, _)
\* The innermost loops of the search for the original spelling
\* (excel-import.ts 497-508) from exercise j of a workout on: a matching
\* exercise name is taken and ends this workout's loop; a matching
\* substitution is taken and ends only that exercise's substitutions
OriginalInWorkout(exs, j, name, originalName) ==
  IF j > Len(exs) THEN originalName
  ELSE IF ToLowerCase(exs[j].name) = name THEN exs[j].name
  ELSE LET hits == {s \in 1..Len(exs[j].substitutions) :
                      ToLowerCase(exs[j].substitutions[s]) = name}
       IN OriginalInWorkout(exs, j + 1, name,
            IF hits = {} THEN originalName
            ELSE exs[j].substitutions[CHOOSE s \in hits : \A t \in hits : s <= t])

RECURSIVE OriginalOver(_, _, _, _)
\* originalName after the first n workouts of the walk (excel-import.ts 493-511)
OriginalOver(blocks, kp, n, name) ==
  IF n = 0 THEN name
  ELSE OriginalInWorkout(WorkoutAt(blocks, kp[n]).exercises, 1, name,
                         OriginalOver(blocks, kp, n - 1, name))

\* The original-cased spelling the code finds for a lower-cased name
originalName(blocks, name) ==
  OriginalOver(blocks, WorkoutPaths(blocks), Len(WorkoutPaths(blocks)), name)

\* exercisesToCreate (excel-import.ts 489-517) given the keys of exerciseMap
exercisesToCreate(blocks, known) ==
  LET names == allNames(blocks)
      missing == {k \in 1..Len(names) : names[k] \notin known}
      RECURSIVE Pick(_)
      Pick(k) ==
        IF k = 0 THEN <<>>
        ELSE IF k \in missing
          THEN Append(Pick(k - 1),
                 [name |-> originalName(blocks, names[k]),
                  category |-> categorizeExercise(originalName(blocks, names[k]))])
          ELSE Pick(k - 1)
  IN Pick(Len(names))

\* ------------------------------------------------------------------------
\* The database statements: each await sql`...` is one statement, atomic on
\* its own (no transaction spans two of them)
\* ------------------------------------------------------------------------

\* gen_random_uuid(): the ids of the n rows a statement adds to a table
NewId(table, k) == Cardinality(table) + k

\* Map.get of a key that is not there (an undefined id)
NoId == 0

\* The rows a multi-row INSERT adds for its n parameter rows
InsertedRows(table, inserts) ==
  {[id |-> NewId(table, k)] @@ inserts[k] : k \in 1..Len(inserts)}

\* Whether two of the rows to insert, or one of them and a row of the table,
\* agree on key (a UNIQUE constraint's violation)
UniqueViolation(table, inserts, Key(_)) ==
  \/ \E j, k \in 1..Len(inserts) : j < k /\ Key(inserts[j]) = Key(inserts[k])
  \/ \E k \in 1..Len(inserts) : \E r \in table : Key(r) = Key(inserts[k])

\* exercises.name is UNIQUE (db.ts 114): the name as written, case and all
ExerciseKey(r) == r.name

\* UNIQUE(program_id, block_number) (db.ts 72)
BlockKey(r) == <<r.program_id, r.block_number>>

\* UNIQUE(block_id, week_number) (db.ts 88)
WeekKey(r) == <<r.block_id, r.week_number>>

\* UNIQUE(week_id, day_number) (db.ts 104)
WorkoutKey(r) == <<r.week_id, r.day_number>>

\* UNIQUE(primary_exercise_id, substitute_exercise_id) (db.ts 133)
SubstitutionKey(r) == <<r.primary_exercise_id, r.substitute_exercise_id>>

\* The last row of a RETURNING result with the key wanted: what a Map filled
\* by map.set(key(row), row.id) in result order gives for it
MapGet(rows, Key(_), key) ==
  LET hits == {r \in rows : Key(r) = key}
  IN IF hits = {} THEN NoId
     ELSE (CHOOSE r \in hits : \A q \in hits : q.id <= r.id).id

\* blockMap (excel-import.ts 567-571)
BlockNumberOf(r) == r.block_number

\* blockInserts, were a tree with no block stored under a default block
blockInserts_DefaultBlock(blocks, programId) ==
  IF blocks = <<>>
    THEN <<[program_id |-> programId, block_number |-> 1,
            name |-> <<"B", "l", "o", "c", "k", " ", "1">>, sort_order |-> 1]>>
    ELSE [b \in 1..Len(blocks) |->
            [program_id |-> programId,
             block_number |-> blocks[b].blockNumber,
             name |-> blocks[b].name,
             sort_order |-> blocks[b].blockNumber]]

\* blockInserts (excel-import.ts 549-554)
blockInserts(blocks, programId) ==
  [b \in 1..Len(blocks) |->
     [program_id |-> programId,
      block_number |-> blocks[b].blockNumber,
      name |-> blocks[b].name,
      sort_order |-> blocks[b].blockNumber]]

\* weekInserts (excel-import.ts 574-586)
weekInserts(blocks, blockRows) ==
  LET wp == WeekPaths(blocks)
  IN [x \in 1..Len(wp) |->
        [block_id |-> MapGet(blockRows, BlockNumberOf, blocks[wp[x][1]].blockNumber),
         week_number |-> WeekAt(blocks, wp[x]).weekNumber,
         name |-> WeekAt(blocks, wp[x]).name,
         week_type |-> WeekAt(blocks, wp[x]).weekType,
         sort_order |-> WeekAt(blocks, wp[x]).weekNumber]]

\* weekMap.get(`${blockId}-${parsedWeek.weekNumber}`) for the week at path p
weekIdOf(blocks, blockRows, weekRows, p) ==
  MapGet(weekRows, WeekKey,
         <<MapGet(blockRows, BlockNumberOf, blocks[p[1]].blockNumber),
           WeekAt(blocks, p).weekNumber>>)

\* workoutInserts (excel-import.ts 607-623)
workoutInserts(blocks, blockRows, weekRows) ==
  LET kp == WorkoutPaths(blocks)
  IN [x \in 1..Len(kp) |->
        [week_id |-> weekIdOf(blocks, blockRows, weekRows, kp[x]),
         name |-> WorkoutAt(blocks, kp[x]).name,
         day_number |-> WorkoutAt(blocks, kp[x]).dayNumber,
         sort_order |-> WorkoutAt(blocks, kp[x]).dayNumber]]

\* workoutMap.get(`${weekId}-${parsedWorkout.dayNumber}`) for the workout at p
workoutIdOf(blocks, blockRows, weekRows, workoutRows, p) ==
  MapGet(workoutRows, WorkoutKey,
         <<weekIdOf(blocks, blockRows, weekRows, p), WorkoutAt(blocks, p).dayNumber>>)

\* Whether exerciseMap.get(name.toLowerCase()) finds an exercise
Resolves(exerciseMap, name) == ToLowerCase(name) \in DOMAIN exerciseMap

\* templateExerciseInserts (excel-import.ts 659-683)
templateExerciseInserts(blocks, blockRows, weekRows, workoutRows, exerciseMap) ==
  LET ep == ExercisePaths(blocks)
      row(p) ==
        LET parsedExercise == ExerciseAt(blocks, p)
        IN IF Resolves(exerciseMap, parsedExercise.name)
             THEN << [workout_template_id |->
                        workoutIdOf(blocks, blockRows, weekRows, workoutRows, p),
                      exercise_id |-> exerciseMap[ToLowerCase(parsedExercise.name)].id,
                      exercise_order |-> p[4],
                      warmup_sets |-> parsedExercise.warmupSets,
                      working_sets |-> parsedExercise.workingSets,
                      rep_range_min |-> parsedExercise.repRangeMin,
                      rep_range_max |-> parsedExercise.repRangeMax,
                      rir |-> parsedExercise.rir,
                      rest_seconds |-> parsedExercise.restSeconds,
                      notes |-> parsedExercise.notes] >>
             ELSE <<>>
  IN Concat([x \in 1..Len(ep) |-> row(ep[x])])

\* substitutionPairs (excel-import.ts 684-693)
substitutionPairs(blocks, exerciseMap) ==
  LET ep == ExercisePaths(blocks)
      pairs(p) ==
        LET parsedExercise == ExerciseAt(blocks, p)
            subs == parsedExercise.substitutions
        IN IF Resolves(exerciseMap, parsedExercise.name)
             THEN Concat([j \in 1..Len(subs) |->
                    IF Resolves(exerciseMap, subs[j])
                      THEN << [primary_exercise_id |->
                                 exerciseMap[ToLowerCase(parsedExercise.name)].id,
                               substitute_exercise_id |->
                                 exerciseMap[ToLowerCase(subs[j])].id] >>
                      ELSE <<>>])
             ELSE <<>>
  IN Concat([x \in 1..Len(ep) |-> pairs(ep[x])])

\* [...uniqueSubs.values()] (excel-import.ts 723-730): one pair per key
uniqueSubs(pairs) == Distinct(pairs)

RECURSIVE InsertWithoutConflictCheck(_, _, _)
\* InsertIgnoringConflicts as it would be with neither the ON CONFLICT clause
\* nor the UNIQUE constraint: every row is added
InsertWithoutConflictCheck(table, inserts, n) ==
  IF n = 0 THEN table
  ELSE LET before == InsertWithoutConflictCheck(table, inserts, n - 1)
       IN before \cup {[id |-> NewId(before, 1)] @@ inserts[n]}

RECURSIVE InsertReplacingConflicts(_, _, _)
\* InsertIgnoringConflicts as it would be were a conflicting row deleted and
\* written anew
InsertReplacingConflicts(table, inserts, n) ==
  IF n = 0 THEN table
  ELSE LET before == InsertReplacingConflicts(table, inserts, n - 1)
           kept == {r \in before : SubstitutionKey(r) # SubstitutionKey(inserts[n])}
       IN kept \cup {[id |-> NewId(before, 1)] @@ inserts[n]}

RECURSIVE InsertIgnoringConflicts(_, _, _)
\* INSERT ... ON CONFLICT DO NOTHING (excel-import.ts 732-739): the table
\* after the first n rows, a row that conflicts being skipped
InsertIgnoringConflicts(table, inserts, n) ==
  IF n = 0 THEN table
  ELSE LET before == InsertIgnoringConflicts(table, inserts, n - 1)
       IN IF \E r \in before : SubstitutionKey(r) = SubstitutionKey(inserts[n])
            THEN before
            ELSE before \cup {[id |-> NewId(before, 1)] @@ inserts[n]}

\* ------------------------------------------------------------------------
\* The handler (excel-import.ts 366-764), one action per await
\* ------------------------------------------------------------------------

\* The requests the model sends: the method, whether the Clerk token
\* verifies, the shape of the upload and the workbook uploaded
Requests ==
  {[method |-> "OPTIONS", authenticated |-> TRUE, upload |-> "ok", workbook |-> "empty"],
   [method |-> "GET", authenticated |-> TRUE, upload |-> "ok", workbook |-> "empty"],
   [method |-> "POST", authenticated |-> FALSE, upload |-> "ok", workbook |-> "empty"]}
  \cup
  {[method |-> "POST", authenticated |-> TRUE, upload |-> u, workbook |-> "empty"] :
     u \in {"not_multipart", "no_boundary", "no_file"}}
  \cup
  {[method |-> "POST", authenticated |-> TRUE, upload |-> "ok", workbook |-> wb] :
     wb \in DOMAIN Workbooks}

\* An import's locals before its request arrives
Idle ==
  [pc |-> "idle",
   request |-> [method |-> "OPTIONS", authenticated |-> TRUE, upload |-> "ok",
                workbook |-> "empty"],
   statusCode |-> 0,
   error |-> "none",
   failedAt |-> "none",
   parsed |-> <<>>,
   exerciseMap |-> <<>>,
   toCreate |-> <<>>,
   newExercises |-> {},
   program |-> {},
   blocks |-> {},
   weeks |-> {},
   workouts |-> {},
   teInserts |-> <<>>,
   subsToInsert |-> <<>>]

\* parsedProgram.blocks of an import
Parsed(p) == imp[p].parsed

\* return { statusCode, ... }
Return(p, code) == [imp EXCEPT ![p].pc = "done", ![p].statusCode = code]

\* The catch block (excel-import.ts 750-763) for an error thrown by a
\* statement; failedAt records the statement that threw (the logged stack)
Throw(p, error) ==
  [imp EXCEPT ![p].pc = "done", ![p].statusCode = 500, ![p].error = error,
              ![p].failedAt = imp[p].pc]

Init ==
  /\ pst = InitialParse
  /\ rowNo = 0
  /\ curRow = 0
  /\ prevRow = 0
  /\ exercises = {}
  /\ programs = {}
  /\ program_blocks = {}
  /\ block_weeks = {}
  /\ workout_templates = {}
  /\ template_exercises = {}
  /\ exercise_substitutions = {}
  /\ imp = [p \in Imports |-> Idle]

\* A request arrives; OPTIONS and non-POST are answered at once
\* (excel-import.ts 367-377), a POST goes on to initDb and authenticateRequest
Receive(p) ==
  /\ imp[p].pc = "idle"
  /\ \E r \in Requests :
       imp' = [imp EXCEPT
                 ![p].request = r,
                 ![p].pc = IF r.method = "POST" THEN "authenticate" ELSE "done",
                 ![p].statusCode = IF r.method = "OPTIONS" THEN 204
                                   ELSE IF r.method = "POST" THEN 0 ELSE 405]
  /\ UNCHANGED <<parseVars, tables>>

\* Authenticate as it would be were the result of authenticateRequest ignored
Authenticate_Unchecked(p) ==
  /\ imp[p].pc = "authenticate"
  /\ imp' = [imp EXCEPT ![p].pc = "selectUser"]
  /\ UNCHANGED <<parseVars, tables>>

\* await authenticateRequest(event) (excel-import.ts 384-392)
Authenticate(p) ==
  /\ imp[p].pc = "authenticate"
  /\ imp' = IF imp[p].request.authenticated
              THEN [imp EXCEPT ![p].pc = "selectUser"]
              ELSE Return(p, 401)
  /\ UNCHANGED <<parseVars, tables>>

\* await sql`SELECT id FROM users ...`, then the checks of the upload, the
\* parse of the workbook and the collection of its names, up to the next
\* await (excel-import.ts 396-475)
SelectUser(p) ==
  /\ imp[p].pc = "selectUser"
  /\ imp' = IF imp[p].request.upload = "ok"
              THEN [imp EXCEPT
                      ![p].parsed = parseMinMaxProgram(Workbooks[imp[p].request.workbook]),
                      ![p].pc = "selectExercises"]
              ELSE Return(p, 400)
  /\ UNCHANGED <<parseVars, tables>>

RECURSIVE ResultMaps(_, _)
\* The maps that the loop exerciseMap.set(ex.lower_name, ex) can leave for a
\* result: of the rows with one lower-cased name it keeps the one the result
\* lists last, and the order of the result is the database's choice
ResultMaps(rows, keys) ==
  IF keys = {} THEN {<<>>}
  ELSE LET l == CHOOSE k \in keys : TRUE
       IN {(l :> e) @@ m : e \in {r \in rows : ToLowerCase(r.name) = l},
                           m \in ResultMaps(rows, keys \ {l})}

\* await sql`SELECT ... FROM exercises WHERE LOWER(name) = ANY(allNames)`,
\* exerciseMap and exercisesToCreate (excel-import.ts 478-517)
SelectExercises(p) ==
  /\ imp[p].pc = "selectExercises"
  /\ LET names == allNames(Parsed(p))
         existingExercises ==
           {e \in exercises : \E k \in 1..Len(names) : ToLowerCase(e.name) = names[k]}
         keys == {ToLowerCase(e.name) : e \in existingExercises}
         toCreate == exercisesToCreate(Parsed(p), keys)
     IN \E m \in ResultMaps(existingExercises, keys) :
          imp' = [imp EXCEPT
                    ![p].exerciseMap = m,
                    ![p].toCreate = toCreate,
                    ![p].pc = IF Len(toCreate) > 0 THEN "insertExercises"
                              ELSE "insertProgram"]
  /\ UNCHANGED <<parseVars, tables>>

\* withNewExercises as it would be were the map keyed by the name as written
withNewExercises_ByName(exerciseMap, newExercises) ==
  [l \in {e.name : e \in newExercises} |->
     CHOOSE e \in newExercises : e.name = l]
  @@ exerciseMap

\* exerciseMap.set(ex.lower_name, ...) for the rows RETURNING gives
\* (excel-import.ts 530-532)
withNewExercises(exerciseMap, newExercises) ==
  [l \in {ToLowerCase(e.name) : e \in newExercises} |->
     CHOOSE e \in newExercises : ToLowerCase(e.name) = l]
  @@ exerciseMap

\* await sql`INSERT INTO exercises (name, category) ... RETURNING ...`
\* (excel-import.ts 520-533)
InsertExercises(p) ==
  /\ imp[p].pc = "insertExercises"
  /\ IF UniqueViolation(exercises, imp[p].toCreate, ExerciseKey)
       THEN /\ imp' = Throw(p, "unique_violation")
            /\ UNCHANGED exercises
       ELSE LET newExercises == InsertedRows(exercises, imp[p].toCreate)
            IN /\ exercises' = exercises \cup newExercises
               /\ imp' = [imp EXCEPT
                            ![p].newExercises = newExercises,
                            ![p].exerciseMap =
                               withNewExercises(imp[p].exerciseMap, newExercises),
                            ![p].pc = "insertProgram"]
  /\ UNCHANGED <<parseVars, programs, program_blocks, block_weeks,
                 workout_templates, template_exercises, exercise_substitutions>>

\* await sql`INSERT INTO programs ... RETURNING *` (excel-import.ts 536-546)
InsertProgram(p) ==
  /\ imp[p].pc = "insertProgram"
  /\ LET program == [id |-> NewId(programs, 1), description |-> "Imported from Excel"]
     IN /\ programs' = programs \cup {program}
        /\ imp' = [imp EXCEPT ![p].program = {program}, ![p].pc = "insertBlocks"]
  /\ UNCHANGED <<parseVars, exercises, program_blocks, block_weeks,
                 workout_templates, template_exercises, exercise_substitutions>>

\* ProgramId as it would be were the id taken before the insert returned it
ProgramId_Unreturned(p) == NewId(programs, 1)

\* The id of the program the import created
ProgramId(p) == (CHOOSE r \in imp[p].program : TRUE).id

\* await sql`INSERT INTO program_blocks ... RETURNING *` (excel-import.ts 549-565)
InsertBlocks(p) ==
  /\ imp[p].pc = "insertBlocks"
  /\ LET inserts == blockInserts(Parsed(p), ProgramId(p))
     IN IF UniqueViolation(program_blocks, inserts, BlockKey)
          THEN /\ imp' = Throw(p, "unique_violation")
               /\ UNCHANGED program_blocks
          ELSE /\ program_blocks' = program_blocks \cup InsertedRows(program_blocks, inserts)
               /\ imp' = [imp EXCEPT
                            ![p].blocks = InsertedRows(program_blocks, inserts),
                            ![p].pc = "insertWeeks"]
  /\ UNCHANGED <<parseVars, exercises, programs, block_weeks,
                 workout_templates, template_exercises, exercise_substitutions>>

\* await sql`INSERT INTO block_weeks ... RETURNING *` (excel-import.ts 574-598);
\* block_id is NOT NULL
InsertWeeks(p) ==
  /\ imp[p].pc = "insertWeeks"
  /\ LET inserts == weekInserts(Parsed(p), imp[p].blocks)
     IN IF \E k \in 1..Len(inserts) : inserts[k].block_id = NoId
          THEN /\ imp' = Throw(p, "not_null_violation")
               /\ UNCHANGED block_weeks
        ELSE IF UniqueViolation(block_weeks, inserts, WeekKey)
          THEN /\ imp' = Throw(p, "unique_violation")
               /\ UNCHANGED block_weeks
          ELSE /\ block_weeks' = block_weeks \cup InsertedRows(block_weeks, inserts)
               /\ imp' = [imp EXCEPT
                            ![p].weeks = InsertedRows(block_weeks, inserts),
                            ![p].pc = "insertWorkouts"]
  /\ UNCHANGED <<parseVars, exercises, programs, program_blocks,
                 workout_templates, template_exercises, exercise_substitutions>>

\* await sql`INSERT INTO workout_templates ... RETURNING *`, then the
\* template-exercise rows and the substitution pairs (excel-import.ts 607-698);
\* week_id is NOT NULL
InsertWorkouts(p) ==
  /\ imp[p].pc = "insertWorkouts"
  /\ LET inserts == workoutInserts(Parsed(p), imp[p].blocks, imp[p].weeks)
         workouts == InsertedRows(workout_templates, inserts)
         teInserts == templateExerciseInserts(Parsed(p), imp[p].blocks, imp[p].weeks,
                                              workouts, imp[p].exerciseMap)
         subsToInsert == uniqueSubs(substitutionPairs(Parsed(p), imp[p].exerciseMap))
     IN IF \E k \in 1..Len(inserts) : inserts[k].week_id = NoId
          THEN /\ imp' = Throw(p, "not_null_violation")
               /\ UNCHANGED workout_templates
        ELSE IF UniqueViolation(workout_templates, inserts, WorkoutKey)
          THEN /\ imp' = Throw(p, "unique_violation")
               /\ UNCHANGED workout_templates
          ELSE /\ workout_templates' = workout_templates \cup workouts
               /\ imp' = [imp EXCEPT
                            ![p].workouts = workouts,
                            ![p].teInserts = teInserts,
                            ![p].subsToInsert = subsToInsert,
                            ![p].pc = IF Len(teInserts) > 0 THEN "insertTemplateExercises"
                                      ELSE IF Len(subsToInsert) > 0 THEN "insertSubstitutions"
                                      ELSE "done",
                            ![p].statusCode = IF Len(teInserts) > 0 \/ Len(subsToInsert) > 0
                                                THEN 0 ELSE 201]
  /\ UNCHANGED <<parseVars, exercises, programs, program_blocks, block_weeks,
                 template_exercises, exercise_substitutions>>

\* await sql`INSERT INTO template_exercises ...` (excel-import.ts 701-721);
\* workout_template_id is NOT NULL
InsertTemplateExercises(p) ==
  /\ imp[p].pc = "insertTemplateExercises"
  /\ IF \E k \in 1..Len(imp[p].teInserts) : imp[p].teInserts[k].workout_template_id = NoId
       THEN /\ imp' = Throw(p, "not_null_violation")
            /\ UNCHANGED template_exercises
       ELSE /\ template_exercises' =
                 template_exercises \cup InsertedRows(template_exercises, imp[p].teInserts)
            /\ imp' = IF Len(imp[p].subsToInsert) > 0
                        THEN [imp EXCEPT ![p].pc = "insertSubstitutions"]
                        ELSE Return(p, 201)
  /\ UNCHANGED <<parseVars, exercises, programs, program_blocks, block_weeks,
                 workout_templates, exercise_substitutions>>

\* await sql`INSERT INTO exercise_substitutions ... ON CONFLICT DO NOTHING`
\* (excel-import.ts 731-749)
InsertSubstitutions(p) ==
  /\ imp[p].pc = "insertSubstitutions"
  /\ exercise_substitutions' =
       InsertIgnoringConflicts(exercise_substitutions, imp[p].subsToInsert,
                               Len(imp[p].subsToInsert))
  /\ imp' = Return(p, 201)
  /\ UNCHANGED <<parseVars, exercises, programs, program_blocks, block_weeks,
                 workout_templates, template_exercises>>

\* The program counters at which the handler awaits a statement
AtStatement ==
  {"selectUser", "selectExercises", "insertExercises", "insertProgram",
   "insertBlocks", "insertWeeks", "insertWorkouts", "insertTemplateExercises",
   "insertSubstitutions"}

\* A statement is not run because the connection to the database fails: the
\* await throws and the catch block answers 500 (excel-import.ts 750-763)
ConnectionFails(p) ==
  /\ imp[p].pc \in AtStatement
  /\ imp' = Throw(p, "connection")
  /\ UNCHANGED <<parseVars, tables>>

Next ==
  \E p \in Imports :
    \/ Receive(p)
    \/ Authenticate(p)
    \/ SelectUser(p)
    \/ SelectExercises(p)
    \/ InsertExercises(p)
    \/ InsertProgram(p)
    \/ InsertBlocks(p)
    \/ InsertWeeks(p)
    \/ InsertWorkouts(p)
    \/ InsertTemplateExercises(p)
    \/ InsertSubstitutions(p)
    \/ ConnectionFails(p)

Spec == Init /\ [][Next]_vars

\* ------------------------------------------------------------------------
\* The scan of one sheet, row by row
\* ------------------------------------------------------------------------

\* The row that stands at place r of the rows fed (none at 0): the rows of
\* SheetRows, then those of CellRows
RowAt(r) ==
  IF r = 0 THEN <<>>
  ELSE IF r <= Len(SheetRows) THEN SheetRows[r]
  ELSE CellRows[r - Len(SheetRows)]

\* The loop body on the next row of the sheet, whatever that row is
ProcessRow ==
  /\ rowNo < MaxRows
  /\ ~pst.threw
  /\ \E r \in 1..Len(SheetRows) :
       /\ pst' = ParseRow(pst, SheetRows[r], rowNo, RowAt(curRow))
       /\ curRow' = r
       /\ prevRow' = curRow
       /\ rowNo' = rowNo + 1
  /\ UNCHANGED <<tables, imp>>

SpecParse == Init /\ [][ProcessRow]_vars

\* The loop body on the next row of a sheet made of the rows of CellRows
ExtractRow ==
  /\ rowNo < MaxCellRows
  /\ ~pst.threw
  /\ \E r \in 1..Len(CellRows) :
       /\ pst' = ParseRow(pst, CellRows[r], rowNo, RowAt(curRow))
       /\ curRow' = Len(SheetRows) + r
       /\ prevRow' = curRow
       /\ rowNo' = rowNo + 1
  /\ UNCHANGED <<tables, imp>>

SpecCells == Init /\ [][ExtractRow]_vars

\* ------------------------------------------------------------------------
\* Properties
\* ------------------------------------------------------------------------

Done(p) == imp[p].pc = "done"

\* The import answered 201
Imported(p) == Done(p) /\ imp[p].statusCode = 201

\* The names a parsed tree references, as written (primary and substitute)
ReferencedNames(blocks) ==
  LET ep == ExercisePaths(blocks)
  IN {ExerciseAt(blocks, ep[x]).name : x \in 1..Len(ep)}
     \cup UNION {{ExerciseAt(blocks, ep[x]).substitutions[j] :
                    j \in 1..Len(ExerciseAt(blocks, ep[x]).substitutions)} :
                 x \in 1..Len(ep)}

\* The template-exercise rows under the workouts an import created
TemplateRowsOf(p) ==
  {r \in template_exercises : \E w \in imp[p].workouts : w.id = r.workout_template_id}

\* The substitution edges an import asked to write
EdgesOf(p) ==
  {imp[p].subsToInsert[k] : k \in 1..Len(imp[p].subsToInsert)}

\* The exercise ids an import's rows reference for a lower-cased name
IdsUsedFor(p, l) ==
  LET named(id) == \E e \in exercises : e.id = id /\ ToLowerCase(e.name) = l
  IN {r.exercise_id : r \in {t \in TemplateRowsOf(p) : named(t.exercise_id)}}
     \cup {r.primary_exercise_id :
             r \in {t \in EdgesOf(p) : named(t.primary_exercise_id)}}
     \cup {r.substitute_exercise_id :
             r \in {t \in EdgesOf(p) : named(t.substitute_exercise_id)}}

LowerNamesOf(p) == {ToLowerCase(n) : n \in ReferencedNames(Parsed(p))}

\* C1: within one import the names that are equal ignoring case resolve to
\* one Exercise id (every row and edge of the import that references an
\* exercise of that name references the same one), and the import creates
\* at most one Exercise row for them
C1_OneExercisePerName ==
  \A p \in Imports :
    \A l \in LowerNamesOf(p) :
      /\ Cardinality({e \in imp[p].newExercises : ToLowerCase(e.name) = l}) <= 1
      /\ Cardinality(IdsUsedFor(p, l)) <= 1
      /\ Imported(p) => Cardinality(IdsUsedFor(p, l)) = 1

\* C1 witness: the workbook naming "Bench Press", "bench press" and
\* "BENCH PRESS" is imported and the library holds exactly one row for them
C1_Witness ==
  \E p \in Imports :
    /\ Imported(p)
    /\ imp[p].request.workbook = "case"
    /\ Cardinality(TemplateRowsOf(p)) = 3
    /\ Cardinality({e \in exercises : ToLowerCase(e.name) = <<"b", "e", "n", "c", "h", " ", "p", "r", "e", "s", "s">>}) = 1

\* The program counters after identity resolution
Resolved(p) ==
  \/ imp[p].pc \in {"insertProgram", "insertBlocks", "insertWeeks", "insertWorkouts",
                    "insertTemplateExercises", "insertSubstitutions"}
  \/ Imported(p)

\* The workout rows of the database that stand for the workout at path x of an
\* import's tree: under the week and block rows that stand for its parents
WorkoutRowsFor(p, x) ==
  {w \in workout_templates :
     /\ w.day_number = WorkoutAt(Parsed(p), x).dayNumber
     /\ w.name = WorkoutAt(Parsed(p), x).name
     /\ \E wk \in block_weeks :
          /\ wk.id = w.week_id
          /\ wk.week_number = WeekAt(Parsed(p), x).weekNumber
          /\ \E b \in program_blocks :
               /\ b.id = wk.block_id
               /\ b.block_number = Parsed(p)[x[1]].blockNumber
               /\ b \in imp[p].blocks}

\* The template-exercise rows that stand for the prescription at path x
TemplateRowsFor(p, x) ==
  {r \in template_exercises :
     /\ r.exercise_order = x[4]
     /\ \E w \in WorkoutRowsFor(p, x) : w.id = r.workout_template_id
     /\ \E e \in exercises :
          /\ e.id = r.exercise_id
          /\ ToLowerCase(e.name) = ToLowerCase(ExerciseAt(Parsed(p), x).name)}

\* C2: after identity resolution every referenced name has an id in the map,
\* that of an existing Exercise of that name; and an import that answered 201
\* left exactly one TemplateExercise row per parsed prescription, under the
\* row of its workout and referencing the Exercise of its name, and no other
C2_EveryPrescriptionPersisted ==
  \A p \in Imports :
    /\ Resolved(p) =>
         \A n \in ReferencedNames(Parsed(p)) :
           /\ ToLowerCase(n) \in DOMAIN imp[p].exerciseMap
           /\ imp[p].exerciseMap[ToLowerCase(n)] \in exercises
           /\ ToLowerCase(imp[p].exerciseMap[ToLowerCase(n)].name) = ToLowerCase(n)
    /\ Imported(p) =>
         LET ep == ExercisePaths(Parsed(p))
         IN /\ Cardinality(TemplateRowsOf(p)) = Len(ep)
            /\ \A x \in 1..Len(ep) :
                 /\ Cardinality(WorkoutRowsFor(p, ep[x])) = 1
                 /\ Cardinality(TemplateRowsFor(p, ep[x])) = 1

\* C2 witness: the twelve prescriptions of the grid workbook are persisted
C2_Witness ==
  \E p \in Imports :
    /\ Imported(p)
    /\ imp[p].request.workbook = "grid"
    /\ Len(ExercisePaths(Parsed(p))) = 12
    /\ Cardinality(TemplateRowsOf(p)) = 12

\* C3: the grid of 1 block header, 2 week headers, 2 workout headers per week
\* and 3 exercises per workout is persisted as 1 block, 2 weeks, 4 workouts
\* and 12 template exercises
C3_GridMirrored ==
  \A p \in Imports :
    (Imported(p) /\ imp[p].request.workbook = "grid") =>
      /\ Cardinality(imp[p].blocks) = 1
      /\ Cardinality(imp[p].weeks) = 2
      /\ Cardinality(imp[p].workouts) = 4
      /\ Cardinality(TemplateRowsOf(p)) = 12

\* C4: sort_order strictly increases within a parent in arrival order (the
\* order of insertion, which is the order of the ids), for blocks, weeks and
\* workouts
C4_SortOrderFollowsArrival ==
  /\ \A r, q \in program_blocks :
       (r.program_id = q.program_id /\ r.id < q.id) => r.sort_order < q.sort_order
  /\ \A r, q \in block_weeks :
       (r.block_id = q.block_id /\ r.id < q.id) => r.sort_order < q.sort_order
  /\ \A r, q \in workout_templates :
       (r.week_id = q.week_id /\ r.id < q.id) => r.sort_order < q.sort_order

\* The rows an import wrote that are in the database
RowsLeftBy(p) ==
  <<imp[p].newExercises \cap exercises,
    imp[p].program \cap programs,
    imp[p].blocks \cap program_blocks,
    imp[p].weeks \cap block_weeks,
    imp[p].workouts \cap workout_templates>>

\* C5: an import that answered 500 has left no row in the database
C5_AllOrNothing ==
  \A p \in Imports :
    (Done(p) /\ imp[p].statusCode = 500) => RowsLeftBy(p) = <<{}, {}, {}, {}, {}>>

\* C6: once the imports have ended, the exercises table holds at most one row
\* per case-insensitive name
C6_OneRowPerNameAfterRace ==
  (\A p \in Imports : Done(p)) =>
    \A e, f \in exercises : ToLowerCase(e.name) = ToLowerCase(f.name) => e = f

\* C7: substitution edges are unique per (primary, substitute), and the
\* statement that writes them never raises a constraint violation
C7_SubstitutionEdgesUnique ==
  /\ \A r, q \in exercise_substitutions :
       SubstitutionKey(r) = SubstitutionKey(q) => r = q
  /\ \A p \in Imports :
       imp[p].failedAt = "insertSubstitutions" => imp[p].error = "connection"

\* The edges from an exercise named primary to one named substitute
EdgesBetween(primary, substitute) ==
  {r \in exercise_substitutions :
     /\ \E e \in exercises : e.id = r.primary_exercise_id /\ e.name = primary
     /\ \E e \in exercises : e.id = r.substitute_exercise_id /\ e.name = substitute}

\* C7 witness: two imports have each written the pair ("Bench Press",
\* "Incline Bench"), which two prescriptions of their workbook name, and one
\* edge stands for it
C7_Witness ==
  /\ \A p \in Imports : Imported(p) /\ imp[p].request.workbook = "subs"
  /\ \A p, q \in Imports : imp[p].subsToInsert = imp[q].subsToInsert
  /\ Cardinality(EdgesBetween(<<"B", "e", "n", "c", "h", " ", "P", "r", "e", "s", "s">>, <<"I", "n", "c", "l", "i", "n", "e", " ", "B", "e", "n", "c", "h">>)) = 1

\* C8: no substitution edge joins an exercise to itself
C8_NoSelfSubstitution ==
  \A r \in exercise_substitutions : r.primary_exercise_id # r.substitute_exercise_id

\* The row processed last is r, a row of SheetRows
Processed(r) == curRow # 0 /\ SheetRows[curRow] = r

\* The row before the row processed last is r
Preceded(r) == prevRow # 0 /\ SheetRows[prevRow] = r

\* C9: a week header preceded by the label row "Intro Week" yields a week of
\* type "intro" whose name contains "(Intro)", and one preceded by
\* "Deload Week" a week of type "deload" whose name contains "(Deload)"
C9_WeekTypeFromPrecedingLabel ==
  /\ (Processed(WeekOneHeader) /\ Preceded(IntroWeekLabel)) =>
       /\ pst.currentWeek # <<>>
       /\ WeekAt(pst.blocks, pst.currentWeek).weekType = "intro"
       /\ Includes(WeekAt(pst.blocks, pst.currentWeek).name, <<"(", "I", "n", "t", "r", "o", ")">>)
  /\ (Processed(WeekOneHeader) /\ Preceded(DeloadWeekLabel)) =>
       /\ pst.currentWeek # <<>>
       /\ WeekAt(pst.blocks, pst.currentWeek).weekType = "deload"
       /\ Includes(WeekAt(pst.blocks, pst.currentWeek).name, <<"(", "D", "e", "l", "o", "a", "d", ")">>)

\* The day numbers of every week of the tree are 1..n in arrival order
DayNumbersSequential ==
  \A x \in 1..Len(WeekPaths(pst.blocks)) :
    LET workouts == WeekAt(pst.blocks, WeekPaths(pst.blocks)[x]).workouts
    IN \A k \in 1..Len(workouts) : workouts[k].dayNumber = k

\* A step that processes a rest-day row leaves the workouts as they were
RestDayKeepsWorkouts ==
  (curRow' # 0 /\ SheetRows[curRow'] = RestDayLabel) =>
    /\ WorkoutPaths(pst'.blocks) = WorkoutPaths(pst.blocks)
    /\ pst'.currentWorkout = pst.currentWorkout

\* C10: within every parsed week the day numbers are exactly 1..n in arrival
\* order, and a "Rest Day" row never creates a workout
C10_DayNumbersSequential ==
  []DayNumbersSequential /\ [][RestDayKeepsWorkouts]_vars

\* C10 witness: a workout header follows a rest-day row that follows a
\* workout, and the week's day numbers are 1, 2
C10_Witness ==
  /\ Preceded(RestDayLabel)
  /\ pst.currentWorkout # <<>>
  /\ pst.currentWorkout[3] = 2
  /\ WorkoutAt(pst.blocks, pst.currentWorkout).dayNumber = 2
  /\ WeekAt(pst.blocks, pst.currentWorkout).workouts[1].dayNumber = 1
  /\ rowNo = 3


\* The row processed last is an exercise row of CellRows and a workout is
\* open: the row's prescription is the last of the current workout
Extracted ==
  /\ curRow > Len(SheetRows)
  /\ ~Truthy(Cell(RowAt(curRow), 1))
  /\ pst.currentWorkout # <<>>

\* The prescription of the row processed last
LastPrescription ==
  LET exs == WorkoutAt(pst.blocks, pst.currentWorkout).exercises
  IN exs[Len(exs)]

\* Whether a cell holds an integer and nothing else: a whole number, or a
\* text made of digits only
BareInteger(c) ==
  \/ c.t = "number"
  \/ c.t = "string" /\ c.s # <<>> /\ \A k \in 1..Len(c.s) : IsDigit(c.s[k])

\* The integer a BareInteger cell holds
IntegerOf(c) == IF c.t = "number" THEN c.n ELSE DigitsToInt(c.s)

\* C11: an absent, empty or unparsable rep-range cell gives (8, 12); a
\* working-sets cell that is not an integer strictly between 0 and 10 gives 2
\* working sets; the warm-up cell "abc" gives 0 warm-up sets and the rest
\* cell "abc" gives 120 seconds
C11_DefaultsOnUnparsable ==
  Extracted =>
    LET row == RowAt(curRow)
        e == LastPrescription
    IN /\ (~Truthy(Cell(row, 6)) \/ Cell(row, 6) = StrCell(<<"a", "b", "c">>)) =>
            <<e.repRangeMin, e.repRangeMax>> = <<8, 12>>
       /\ ~(/\ BareInteger(Cell(row, 5))
            /\ IntegerOf(Cell(row, 5)) > 0
            /\ IntegerOf(Cell(row, 5)) < 10) => e.workingSets = 2
       /\ Cell(row, 4) = StrCell(<<"a", "b", "c">>) => e.warmupSets = 0
       /\ Cell(row, 13) = StrCell(<<"a", "b", "c">>) => e.restSeconds = 120

\* The cursors of the scan refer to objects of the tree: the tree is one the
\* function can return
CursorsInTree ==
  /\ pst.currentBlock \in 0..Len(pst.blocks)
  /\ pst.currentWeek # <<>> =>
       /\ pst.currentWeek[1] = pst.currentBlock
       /\ pst.currentWeek[2] \in 1..Len(pst.blocks[pst.currentWeek[1]].weeks)
  /\ pst.currentWorkout # <<>> =>
       /\ pst.currentWeek = <<pst.currentWorkout[1], pst.currentWorkout[2]>>
       /\ pst.currentWorkout[3] \in 1..Len(WeekAt(pst.blocks, pst.currentWeek).workouts)

\* Every step of the scan takes the next row, one row further
OneRowPerStep == rowNo' = rowNo + 1 /\ curRow' # 0 /\ prevRow' = curRow

\* C12: the scan never raises, whatever the rows are (a hole, an empty row,
\* a short row, cells that are numbers), it takes the rows one by one in
\* order, and what it has built is a tree its cursors refer into
C12_ParsingNeverFails ==
  [](~pst.threw /\ CursorsInTree) /\ [][OneRowPerStep]_vars

\* C12 witness: the end of a sheet of MaxRows rows is reached past a hole, a
\* row of numbers and a short row, which became a prescription
C12_Witness ==
  /\ rowNo = MaxRows
  /\ Processed(ShortRow)
  /\ Preceded(Hole)
  /\ pst.currentWorkout # <<>>
  /\ LastPrescription.name = <<"L", "u", "n", "g", "e">>
  /\ ~pst.threw

\* What an import has parsed, built and written so far is nothing
NothingDone(p) ==
  /\ imp[p].parsed = <<>>
  /\ imp[p].toCreate = <<>>
  /\ imp[p].newExercises = {}
  /\ imp[p].program = {}
  /\ imp[p].blocks = {}
  /\ imp[p].weeks = {}
  /\ imp[p].workouts = {}
  /\ imp[p].teInserts = <<>>
  /\ imp[p].subsToInsert = <<>>

\* The request of an import passes authentication and the checks of the upload
Admitted(p) ==
  /\ imp[p].request.method = "POST"
  /\ imp[p].request.authenticated
  /\ imp[p].request.upload = "ok"

\* A step that changes a table is the step of an import whose request was
\* admitted and whose workbook was parsed
WritesOnlyWhenAdmitted ==
  tables' # tables =>
    \E p \in Imports : imp'[p] # imp[p] /\ Admitted(p) /\ imp[p].pc \notin {"idle", "authenticate", "selectUser"}

SecondImportAddsNothing ==
  \A p, q \in Imports :
    (p # q /\ Imported(q) /\ LowerNamesOf(p) \subseteq LowerNamesOf(q)) =>
      /\ (imp[p].pc = "selectExercises" /\ imp'[p].pc \notin {"selectExercises", "done"}) =>
           /\ imp'[p].toCreate = <<>>
           /\ imp'[p].pc = "insertProgram"
           /\ \A l \in LowerNamesOf(p) :
                /\ l \in DOMAIN imp'[p].exerciseMap
                /\ imp'[p].exerciseMap[l] = imp[q].exerciseMap[l]
      /\ (imp[p].pc = "insertSubstitutions"
            /\ imp[p].request.workbook = imp[q].request.workbook) =>
           exercise_substitutions' = exercise_substitutions
      /\ (imp[p].toCreate = <<>> /\ imp'[p] # imp[p]) => exercises' = exercises

\* C14: an import that follows a successful import of the same workbook, or
\* of one that spells the same names in another letter case, creates no
\* Exercise row and no substitution edge and resolves every name to the id
\* the first import resolved it to
C14_SecondImportAddsNothing == [][SecondImportAddsNothing]_vars

\* C14 witness: the workbook subs was imported twice, the second import
\* created no exercise, and the library holds the two exercises and the two
\* edges of the first
C14_Witness ==
  \E p, q \in Imports :
    /\ p # q
    /\ Imported(p) /\ Imported(q)
    /\ imp[p].request.workbook = "subs" /\ imp[q].request.workbook = "subs"
    /\ imp[p].newExercises = {} /\ imp[q].newExercises # {}
    /\ imp[p].exerciseMap = imp[q].exerciseMap
    /\ Len(imp[p].subsToInsert) = 2
    /\ Cardinality(exercises) = 2
    /\ Cardinality(exercise_substitutions) = 2

\* Every row of every table is in the table after the step, as it was
RowsKept ==
  /\ exercises \subseteq exercises'
  /\ programs \subseteq programs'
  /\ program_blocks \subseteq program_blocks'
  /\ block_weeks \subseteq block_weeks'
  /\ workout_templates \subseteq workout_templates'
  /\ template_exercises \subseteq template_exercises'
  /\ exercise_substitutions \subseteq exercise_substitutions'

\* C15: no step of an import updates or deletes a row: every row keeps its
\* id and its columns, an Exercise its name as spelled and its category
C15_OnlyAddsRows == [][RowsKept]_vars

\* C15 witness: the library's "BENCH PRESS", created by one import, is the
\* exercise of another import's "Bench Press", "bench press" and "BENCH
\* PRESS", as spelled by the first
C15_Witness ==
  \E p, q \in Imports :
    /\ Imported(p) /\ imp[p].request.workbook = "case" /\ imp[p].newExercises = {}
    /\ Imported(q) /\ imp[q].request.workbook = "order"
    /\ \E e \in imp[q].newExercises :
         /\ e.name = <<"B", "E", "N", "C", "H", " ", "P", "R", "E", "S", "S">>
         /\ e \in exercises
         /\ \A r \in TemplateRowsOf(p) : r.exercise_id = e.id
    /\ Cardinality(TemplateRowsOf(p)) = 3

\* The row a step processes
RowTaken == SheetRows[curRow']

\* The number of weeks of a tree
WeekCount(blocks) == Len(WeekPaths(blocks))

\* What C16 asks of a step that processes the week header "Week 1" with the
\* exercise marker: one week more, numbered 1, in the current block (Block 1
\* if none was open), which is the current week, and no current workout
WeekHeaderAppendsWeek ==
  RowTaken = WeekOneHeader =>
    /\ pst'.currentBlock # 0
    /\ pst.currentBlock # 0 => pst'.currentBlock = pst.currentBlock
    /\ pst.currentBlock = 0 => pst'.blocks[pst'.currentBlock].blockNumber = 1
    /\ WeekCount(pst'.blocks) = WeekCount(pst.blocks) + 1
    /\ pst'.currentWeek =
         <<pst'.currentBlock, Len(pst'.blocks[pst'.currentBlock].weeks)>>
    /\ WeekAt(pst'.blocks, pst'.currentWeek).weekNumber = 1
    /\ pst'.currentWorkout = <<>>

\* C16: a week-header row (a label with "week", the exercise marker beside
\* it) appends exactly one week to the current block, numbered by the
\* label, makes it the current week and clears the current workout, Block 1
\* being created if no block is open
C16_WeekHeaderAppendsWeek == [][WeekHeaderAppendsWeek]_vars

\* Column B and column C of a row as the scan reads them
ColB(row) == Trim(StringOrEmpty(Cell(row, 1)))

ColC(row) == Trim(StringOrEmpty(Cell(row, 2)))

\* The number of prescriptions of a tree
ExerciseCount(blocks) == Len(ExercisePaths(blocks))

\* A name that is a header keyword
HeaderKeyword(name) ==
  Includes(ToLowerCase(name), <<"e", "x", "e", "r", "c", "i", "s", "e">>) \/ Includes(ToLowerCase(name), <<"l", "o", "a", "d">>)

\* What C17 asks of a step: an exercise row (no label in column B) appends
\* its prescription to the current workout if one is open and the name is
\* neither empty nor a header keyword, and otherwise leaves the tree as it
\* is; a block header leaves no current week and no current workout
ExerciseRowAppendsIffOpen ==
  /\ ColB(RowTaken) = <<>> =>
       IF pst.currentWorkout # <<>> /\ ColC(RowTaken) # <<>> /\ ~HeaderKeyword(ColC(RowTaken))
         THEN /\ pst'.currentWorkout = pst.currentWorkout
              /\ WorkoutAt(pst'.blocks, pst.currentWorkout).exercises =
                   Append(WorkoutAt(pst.blocks, pst.currentWorkout).exercises,
                          addExerciseToWorkout(ColC(RowTaken), RowTaken))
              /\ ExerciseCount(pst'.blocks) = ExerciseCount(pst.blocks) + 1
         ELSE pst' = pst
  /\ (RowTaken = LabelRow(<<"B", "l", "o", "c", "k", " ", "1">>) \/ RowTaken = LabelRow(<<"B", "l", "o", "c", "k", " ", "3">>)) =>
       /\ pst'.currentWeek = <<>>
       /\ pst'.currentWorkout = <<>>
       /\ Len(pst'.blocks) = Len(pst.blocks) + 1
       /\ ExerciseCount(pst'.blocks) = ExerciseCount(pst.blocks)

C18_NumbersMonotonic ==
  /\ \A a, b \in 1..Len(pst.blocks) :
       a < b => pst.blocks[a].blockNumber <= pst.blocks[b].blockNumber
  /\ \A x \in 1..Len(pst.blocks) :
       \A a, b \in 1..Len(pst.blocks[x].weeks) :
         a < b => pst.blocks[x].weeks[a].weekNumber <= pst.blocks[x].weeks[b].weekNumber
  /\ \A x \in 1..Len(WeekPaths(pst.blocks)) :
       LET workouts == WeekAt(pst.blocks, WeekPaths(pst.blocks)[x]).workouts
       IN \A a, b \in 1..Len(workouts) :
            a < b => workouts[a].dayNumber <= workouts[b].dayNumber

\* C19: a workbook whose two blocks both carry the number 1 is imported, and
\* each block's week is stored under its own block row and each week's
\* workout under its own week row (unless the connection fails)
C19_DuplicateNumbersTolerated ==
  \A p \in Imports :
    (Done(p) /\ imp[p].request.workbook = "twice" /\ imp[p].error # "connection") =>
      /\ imp[p].statusCode = 201
      /\ Cardinality(imp[p].blocks) = 2
      /\ Cardinality({w.block_id : w \in imp[p].weeks}) = 2
      /\ Cardinality({k.week_id : k \in imp[p].workouts}) = 2

\* C20: every prescription has a rep range of positive integers with
\* min <= max, whatever the rep-range cell holds
C20_RepRangeOrdered ==
  Extracted =>
    /\ LastPrescription.repRangeMin >= 1
    /\ LastPrescription.repRangeMin <= LastPrescription.repRangeMax

\* C21: the warm-up set count of every prescription is between 0 and 5,
\* whether the cell holds a bare integer or a range "N-M"
C21_WarmupAtMostFive ==
  Extracted => LastPrescription.warmupSets \in 0..5

\* Whether a cell holds a number from 0 to 4
QualifiesAsRir(c) == c.t = "number" /\ c.n >= 0 /\ c.n <= 4

\* C22: the RIR of a prescription is the value of the first of the two RIR
\* columns (L, M) that holds a number from 0 to 4, and null if neither does
C22_RirFromFirstQualifyingColumn ==
  Extracted =>
    LET first == Cell(RowAt(curRow), 11)
        second == Cell(RowAt(curRow), 12)
    IN LastPrescription.rir =
         IF QualifiesAsRir(first) THEN <<first.n>>
         ELSE IF QualifiesAsRir(second) THEN <<second.n>>
         ELSE <<>>

\* The names of a tree in walk order: each prescription's name, then its
\* substitutions
Mentions(blocks) ==
  LET ep == ExercisePaths(blocks)
  IN Concat([x \in 1..Len(ep) |->
               <<ExerciseAt(blocks, ep[x]).name>> \o ExerciseAt(blocks, ep[x]).substitutions])

\* The spelling of the first mention of a lower-cased name
FirstSpelling(blocks, l) ==
  LET ms == Mentions(blocks)
      at == {k \in 1..Len(ms) : ToLowerCase(ms[k]) = l}
  IN ms[CHOOSE k \in at : \A j \in at : k <= j]

\* C23: each exercise an import is to create carries the spelling of the
\* first mention of its name in the walk of the parsed tree
C23_FirstSpellingKept ==
  \A p \in Imports :
    \A k \in 1..Len(imp[p].toCreate) :
      imp[p].toCreate[k].name =
        FirstSpelling(Parsed(p), ToLowerCase(imp[p].toCreate[k].name))

\* Every row that references a parent references a row that is there
ParentsExist ==
  /\ \A b \in program_blocks : \E r \in programs : r.id = b.program_id
  /\ \A w \in block_weeks : \E b \in program_blocks : b.id = w.block_id
  /\ \A k \in workout_templates : \E w \in block_weeks : w.id = k.week_id
  /\ \A t \in template_exercises :
       /\ \E k \in workout_templates : k.id = t.workout_template_id
       /\ \E e \in exercises : e.id = t.exercise_id
  /\ \A s \in exercise_substitutions :
       /\ \E e \in exercises : e.id = s.primary_exercise_id
       /\ \E e \in exercises : e.id = s.substitute_exercise_id

\* What an import has written comes in the order program, blocks, weeks,
\* workouts
WrittenInOrder(p) ==
  /\ imp[p].blocks # {} => imp[p].program # {}
  /\ imp[p].weeks # {} => imp[p].blocks # {}
  /\ imp[p].workouts # {} => imp[p].weeks # {}

\* A step that writes template exercises is the step of an import that has
\* created its exercises and written its workouts, and a step that writes
\* substitution edges is the last step of an import that has written its
\* template exercises
ChildrenWrittenLast ==
  /\ template_exercises' # template_exercises =>
       \E p \in Imports :
         /\ imp[p].pc = "insertTemplateExercises"
         /\ Cardinality(imp[p].newExercises) = Len(imp[p].toCreate)
         /\ Cardinality(imp[p].workouts) = Len(WorkoutPaths(Parsed(p)))
  /\ exercise_substitutions' # exercise_substitutions =>
       \E p \in Imports :
         /\ imp[p].pc = "insertSubstitutions"
         /\ Cardinality(TemplateRowsOf(p)) = Len(imp[p].teInserts)
         /\ imp'[p].pc = "done"

\* C24: the writes of an import follow the order program, blocks, weeks,
\* workouts, template exercises (after the exercises), substitution edges,
\* and no row is written before the row it references is there
C24_WritesFollowDependencies ==
  /\ [](ParentsExist /\ \A p \in Imports : WrittenInOrder(p))
  /\ [][ChildrenWrittenLast]_vars

\* C24 witness: the import of the workbook subs has written a row of every
\* table
C24_Witness ==
  \E p \in Imports :
    /\ Imported(p) /\ imp[p].request.workbook = "subs"
    /\ imp[p].program # {} /\ imp[p].blocks # {} /\ imp[p].weeks # {}
    /\ imp[p].workouts # {} /\ imp[p].newExercises # {}
    /\ Cardinality(TemplateRowsOf(p)) = 2
    /\ \A k \in 1..Len(imp[p].subsToInsert) :
         \E s \in exercise_substitutions :
           SubstitutionKey(s) = SubstitutionKey(imp[p].subsToInsert[k])

\* What C25 asks of a step that processes the block header of column A: the
\* state the block header "Block 2" of column B would leave
ColumnAHeaderAsColumnB ==
  RowTaken = ColumnABlock =>
    pst' = ParseRow(pst, LabelRow(<<"B", "l", "o", "c", "k", " ", "2">>), rowNo, RowAt(curRow))

\* C25: a structural label in column A is classified as the same label in
\* column B is
C25_LabelInEitherColumn == [][ColumnAHeaderAsColumnB]_vars

\* The rows that are skipped: an empty row, a hole, a copyright banner, a
\* column-header row, a rest-day marker, week labels that are no week
\* headers, and a row of numbers, which no rule recognises
SkippedRows ==
  { <<>>, Hole, LabelRow(<<"C", "o", "p", "y", "r", "i", "g", "h", "t", " ", "2", "0", "2", "4">>), RowOf(2 :> StrCell(<<"T", "r", "a", "c", "k", "i", "n", "g", " ", "L", "o", "a", "d", " ", "(", "k", "g", ")">>)),
    RestDayLabel, IntroWeekLabel, DeloadWeekLabel, NumberRow }

\* What C26 asks of a step that processes a skipped row
SkippedRowChangesNothing ==
  RowTaken \in SkippedRows =>
    /\ pst'.blocks = pst.blocks
    /\ pst'.currentBlock = pst.currentBlock
    /\ pst'.currentWeek = pst.currentWeek
    /\ pst'.currentWorkout = pst.currentWorkout

\* C26: a skipped row leaves the tree and the three cursors as they were
C26_SkippedRowChangesNothing == [][SkippedRowChangesNothing]_vars

\* The cursors refer to the last block, its last week and that week's last
\* workout; a workout is open only in an open week, a week only in an open
\* block
CursorsAtLast ==
  /\ pst.currentBlock \in {0, Len(pst.blocks)}
  /\ pst.currentWeek # <<>> =>
       /\ pst.currentBlock # 0
       /\ pst.currentWeek = <<pst.currentBlock, Len(pst.blocks[pst.currentBlock].weeks)>>
       /\ pst.currentWeek[2] >= 1
  /\ pst.currentWorkout # <<>> =>
       /\ pst.currentWeek # <<>>
       /\ pst.currentWorkout =
            pst.currentWeek \o <<Len(WeekAt(pst.blocks, pst.currentWeek).workouts)>>
       /\ pst.currentWorkout[3] >= 1

\* C28: after every row, a set workout cursor is the last workout of the
\* current week, a set week cursor the last week of the current block and a
\* set block cursor the last block; a set workout implies a set week and a
\* set week a set block
C28_CursorsConsistent == CursorsAtLast

\* C28 witness: a second block was opened after a workout of the first, and
\* a workout of the second block is the current one
C28_Witness ==
  /\ Len(pst.blocks) = 2
  /\ pst.blocks[1].weeks # <<>>
  /\ pst.currentWorkout = <<2, 1, 1>>
  /\ pst.currentBlock = 2

\* An import that answered 201 with its whole tree stored: its program row, a
\* row for every block of the parsed tree and a template row for every
\* prescription
FullTreeStored(p) ==
  /\ imp[p].statusCode = 201
  /\ Cardinality(imp[p].program) = 1
  /\ Cardinality(imp[p].blocks) = Len(Parsed(p))
  /\ Cardinality(TemplateRowsOf(p)) = Len(imp[p].teInserts)

\* C27: two imports that run at the same time both answer 201 and store
\* their whole trees under every interleaving of their statements, also when
\* both bring the same new exercise name (unless the connection fails; the
\* workbook whose block numbers collide fails on its own)
C27_ConcurrentImportsIndependent ==
  \A p \in Imports :
    (/\ Done(p)
     /\ imp[p].request.method = "POST" /\ imp[p].request.authenticated
     /\ imp[p].request.upload = "ok" /\ imp[p].request.workbook # "twice"
     /\ imp[p].error # "connection") => FullTreeStored(p)

\* The workbooks whose sheet has no structural and no exercise row
RowlessWorkbooks == {"noise", "empty"}

\* The import of a workbook with an upload that passed the checks
Uploaded(p, wbs) ==
  /\ imp[p].request.method = "POST" /\ imp[p].request.authenticated
  /\ imp[p].request.upload = "ok" /\ imp[p].request.workbook \in wbs

\* C29: a workbook with no recognisable row is imported: the parsed tree has
\* no block, the handler answers 201 and stores one program row and no row
\* of another table (unless the connection fails)
C29_RowlessWorkbookImported ==
  /\ \A p \in Imports :
       (Done(p) /\ Uploaded(p, RowlessWorkbooks) /\ imp[p].error # "connection") =>
         /\ imp[p].statusCode = 201
         /\ Parsed(p) = <<>>
         /\ Cardinality(imp[p].program) = 1 /\ imp[p].program \subseteq programs
         /\ imp[p].newExercises = {} /\ imp[p].blocks = {} /\ imp[p].weeks = {}
         /\ imp[p].workouts = {} /\ imp[p].teInserts = <<>>
         /\ imp[p].subsToInsert = <<>>
  /\ (\A p \in Imports : imp[p].request.workbook \in RowlessWorkbooks) =>
       /\ exercises = {} /\ program_blocks = {} /\ block_weeks = {}
       /\ workout_templates = {} /\ template_exercises = {}
       /\ exercise_substitutions = {}

\* C29 witness: the workbook of noise rows was imported with one program row
C29_Witness ==
  \E p \in Imports :
    /\ Imported(p) /\ imp[p].request.workbook = "noise"
    /\ Cardinality(imp[p].program) = 1
    /\ \A q \in Imports : imp[q].request.workbook \in RowlessWorkbooks
    /\ program_blocks = {}

\* The template-exercise rows under a workout row
RowsUnder(w) == {r \in template_exercises : r.workout_template_id = w.id}

\* The exercises under a workout row as pairs of exercise_order and name,
\* the name in lower case
OrderedNames(w) ==
  {<<x[1].exercise_order, ToLowerCase(x[2].name)>> :
     x \in {y \in RowsUnder(w) \X exercises : y[2].id = y[1].exercise_id}}

\* The exercises of a workout of the grid workbook in the order of their
\* rows, the first being the one its header row carries: the workouts of
\* odd day number are "Upper", those of even day number "Lower"
GridNames(day) ==
  IF day % 2 = 1 THEN <<<<"b", "e", "n", "c", "h", " ", "p", "r", "e", "s", "s">>, <<"r", "o", "w">>, <<"c", "u", "r", "l">>>>
                 ELSE <<<<"s", "q", "u", "a", "t">>, <<"l", "u", "n", "g", "e">>, <<"c", "a", "l", "f", " ", "r", "a", "i", "s", "e">>>>

\* C30: under every workout row of an import that answered 201 the values of
\* exercise_order are exactly 1..n, and in the grid workbook they follow the
\* order of the sheet's rows: the exercise a workout-header row carries is
\* the first of the workout that row opens, not the last of the one before
C30_ExerciseOrderFollowsSheet ==
  \A p \in Imports :
    Imported(p) =>
      \A w \in imp[p].workouts :
        /\ \A r, q \in RowsUnder(w) : r.exercise_order = q.exercise_order => r = q
        /\ {r.exercise_order : r \in RowsUnder(w)} = 1..Cardinality(RowsUnder(w))
        /\ imp[p].request.workbook = "grid" =>
             OrderedNames(w) = {<<k, GridNames(w.day_number)[k]>> : k \in 1..3}

\* C30 witness: the grid workbook is imported and the row of order 1 under its
\* second workout, "Lower", is the exercise of that workout's header row
C30_Witness ==
  \E p \in Imports :
    /\ Imported(p) /\ imp[p].request.workbook = "grid"
    /\ \E w \in imp[p].workouts :
         /\ w.day_number = 2 /\ w.name = <<"L", "o", "w", "e", "r">>
         /\ <<1, <<"s", "q", "u", "a", "t">>>> \in OrderedNames(w)
         /\ Cardinality(RowsUnder(w)) = 3
=============================================================================
